---- MODULE Spec2Model ----
(***************************************************************************)
(* Buyer-leads CRM: the CSV bulk-import pipeline.                          *)
(*                                                                         *)
(*   CSVParser.parseCSV          backend/src/utils/csvParser.ts            *)
(*   CSVDataCleaner, CSVRowValidator   backend/src/validators/csvValidator *)
(*   csvRowSchema, validateCSVRow      backend/src/validators/buyer        *)
(*   CSVImportService.importBuyersFromCSV  backend/src/services/csvImport  *)
(*                                                                         *)
(* Text is a sequence of one-character strings, so that trimming, digit    *)
(* stripping, lower-casing and substring search are computed as the code   *)
(* computes them.  A JavaScript value is a record tagged with its type.    *)
(***************************************************************************)
EXTENDS Integers, Sequences, FiniteSets, TLC

VARIABLES
  \* ---- importBuyersFromCSV ----
  pc,          \* position in importBuyersFromCSV
  file,        \* the uploaded Express.Multer.File
  result,      \* the ImportResult being built
  parseData,   \* parseResult.data
  validRows,   \* rows staged for createMany
  idx,         \* the row loop's i
  buyers,      \* the buyers table of the storage collaborator
  calls,       \* how often the parser, the cleaner and createMany were invoked
  rowLog,      \* per processed row: what the clean/validate pipeline said
  \* ---- one row through clean -> validate ----
  rpc,         \* position of the single-row pipeline
  rawRow,      \* the row as parsed
  cleanedRow,  \* after CSVDataCleaner.cleanRowData (and validateRow's auto-fix)
  enhanced,    \* CSVRowValidator.validateRow's answer
  zodRes,      \* validateCSVRow's answer
  \* ---- one function applied to one argument ----
  ufn,         \* the function to apply, "done" once applied
  uarg,        \* its argument
  uout,        \* what it returned
  \* ---- PUT /buyers/:id ----
  now,         \* the clock prisma stamps updatedAt with
  buyerTable,  \* the buyers table: id -> record
  history,     \* the buyer_history table
  req,         \* per request: id, data, updatedAt, userId, userRole
  upc,         \* per request: position in updateBuyer
  currentBuyer,\* per request: what findUnique returned
  resp,        \* per request: the HTTP status answered
  \* ---- debounce(func, wait) ----
  clock,       \* the time, in milliseconds
  wait,        \* the delay the function was debounced with
  timeout,     \* the closure's variable: the last timer's handle, 0 for null
  timers,      \* the runtime's timers that are set and have not run
  callLog,     \* the calls of the debounced function: at, args
  invocations  \* the calls of func: at, args, and the timer that made it

importVars == <<pc, file, result, parseData, validRows, idx, buyers, calls, rowLog>>
rowVars == <<rpc, rawRow, cleanedRow, enhanced, zodRes>>
unitVars == <<ufn, uarg, uout>>
updateVars == <<now, buyerTable, history, req, upc, currentBuyer, resp>>
debounceVars == <<clock, wait, timeout, timers, callLog, invocations>>
vars == <<pc, file, result, parseData, validRows, idx, buyers, calls, rowLog,
          rpc, rawRow, cleanedRow, enhanced, zodRes,
          ufn, uarg, uout,
          now, buyerTable, history, req, upc, currentBuyer, resp,
          clock, wait, timeout, timers, callLog, invocations>>

-----------------------------------------------------------------------------
(* Text *)

Digits == {"0","1","2","3","4","5","6","7","8","9"}
UpperCase == <<"A","B","C","D","E","F","G","H","I","J","K","L","M",
               "N","O","P","Q","R","S","T","U","V","W","X","Y","Z">>
LowerCase == <<"a","b","c","d","e","f","g","h","i","j","k","l","m",
               "n","o","p","q","r","s","t","u","v","w","x","y","z">>
\* the characters \s matches and trim removes; the model's texts use the
\* blank, the tab and the line ends
WhiteSpace == {" ", "\t", "\n", "\r"}
\* stands for the one character U+20B9 (the rupee sign)
Rupee == "INR"

IsDigit(c) == c \in Digits
IsSpace(c) == c \in WhiteSpace
IsLetter(c) == \E i \in 1..26 : c = UpperCase[i] \/ c = LowerCase[i]

\* String.prototype.toLowerCase, one character
LowerChar(c) ==
  IF \E i \in 1..26 : UpperCase[i] = c
    THEN LowerCase[CHOOSE i \in 1..26 : UpperCase[i] = c]
    ELSE c

\* String.prototype.toLowerCase
ToLowerCase(s) == [i \in 1..Len(s) |-> LowerChar(s[i])]

\* String.prototype.trim
RECURSIVE TrimStart(_)
TrimStart(s) == IF s # <<>> /\ IsSpace(s[1]) THEN TrimStart(Tail(s)) ELSE s

RECURSIVE TrimEnd(_)
TrimEnd(s) ==
  IF s # <<>> /\ IsSpace(s[Len(s)]) THEN TrimEnd(SubSeq(s, 1, Len(s) - 1)) ELSE s

Trim(s) == TrimEnd(TrimStart(s))

\* String.prototype.includes
Includes(s, sub) ==
  \E i \in 1..(Len(s) - Len(sub) + 1) : SubSeq(s, i, i + Len(sub) - 1) = sub

\* String.prototype.startsWith
StartsWith(s, p) == Len(s) >= Len(p) /\ SubSeq(s, 1, Len(p)) = p

\* s.replace(/x/g, '') for a set of characters
StripChars(s, cs) == SelectSeq(s, LAMBDA c : c \notin cs)

\* s.replace(/sub/gi, '') : every occurrence of sub, whatever its case, left to right
RECURSIVE RemoveAllCI(_, _)
RemoveAllCI(s, sub) ==
  IF s = <<>> THEN <<>>
  ELSE IF Len(s) >= Len(sub) /\ ToLowerCase(SubSeq(s, 1, Len(sub))) = sub
    THEN RemoveAllCI(SubSeq(s, Len(sub) + 1, Len(s)), sub)
    ELSE <<Head(s)>> \o RemoveAllCI(Tail(s), sub)

\* s.split(',')
RECURSIVE Split(_, _)
Split(s, sep) ==
  IF \A i \in 1..Len(s) : s[i] # sep THEN <<s>>
  ELSE LET p == CHOOSE i \in 1..Len(s) : s[i] = sep /\ \A j \in 1..(i-1) : s[j] # sep
       IN <<SubSeq(s, 1, p - 1)>> \o Split(SubSeq(s, p + 1, Len(s)), sep)

DigitVal(c) ==
  CASE c = "0" -> 0 [] c = "1" -> 1 [] c = "2" -> 2 [] c = "3" -> 3 [] c = "4" -> 4
    [] c = "5" -> 5 [] c = "6" -> 6 [] c = "7" -> 7 [] c = "8" -> 8 [] c = "9" -> 9

RECURSIVE DigitsToNat(_)
DigitsToNat(ds) ==
  IF ds = <<>> THEN 0
  ELSE 10 * DigitsToNat(SubSeq(ds, 1, Len(ds) - 1)) + DigitVal(ds[Len(ds)])

\* the longest prefix of s made of digits
DigitPrefix(s) ==
  LET stop == {i \in 1..Len(s) : ~IsDigit(s[i])}
  IN IF stop = {} THEN s
     ELSE SubSeq(s, 1, (CHOOSE i \in stop : \A j \in stop : i <= j) - 1)

-----------------------------------------------------------------------------
(* JavaScript values.  A number is n + f/1000 with n its floor and f in     *)
(* 0..999, so that parseFloat's fractions, zod's int() and the lakh and     *)
(* crore factors are all computable within TLC's integers.                  *)

Str(s) == [t |-> "string", s |-> s, n |-> 0, f |-> 0, a |-> <<>>]
NumF(n, f) == [t |-> "number", s |-> <<>>, n |-> n, f |-> f, a |-> <<>>]
Num(n) == NumF(n, 0)
Arr(a) == [t |-> "array", s |-> <<>>, n |-> 0, f |-> 0, a |-> a]
Null == [t |-> "null", s |-> <<>>, n |-> 0, f |-> 0, a |-> <<>>]
Undefined == [t |-> "undefined", s |-> <<>>, n |-> 0, f |-> 0, a |-> <<>>]
NaN == [t |-> "NaN", s |-> <<>>, n |-> 0, f |-> 0, a |-> <<>>]

Unit == 10 * 10 * 10
IsInteger(v) == v.t = "number" /\ v.f = 0

\* x < y and x >= y on numbers
Less(x, y) == x.n < y.n \/ (x.n = y.n /\ x.f < y.f)
AtLeast(x, y) == ~Less(x, y)

\* ToBoolean
Truthy(v) ==
  CASE v.t = "string" -> v.s # <<>>
    [] v.t = "number" -> v.n # 0 \/ v.f # 0
    [] v.t = "array" -> TRUE
    [] OTHER -> FALSE

\* row[key]: a key the object lacks reads as undefined
Get(row, key) == IF key \in DOMAIN row THEN row[key] ELSE Undefined

\* parseFloat: optional sign, digits, optional fraction; NaN when no digit is
\* read.  Fraction digits after the third are dropped and exponents are not
\* read: the model's budgets have at most three decimals and no exponent.
ParseFloat(s0) ==
  LET s == Trim(s0)
      neg == s # <<>> /\ s[1] = "-"
      body == IF s # <<>> /\ s[1] \in {"-", "+"} THEN Tail(s) ELSE s
      ip == DigitPrefix(body)
      rest == SubSeq(body, Len(ip) + 1, Len(body))
      fp == IF rest # <<>> /\ rest[1] = "." THEN DigitPrefix(Tail(rest)) ELSE <<>>
      whole == DigitsToNat(ip)
      frac == DigitsToNat(SubSeq(fp \o <<"0","0","0">>, 1, 3))
  IN IF ip = <<>> /\ fp = <<>> THEN NaN
     ELSE IF ~neg THEN NumF(whole, frac)
     ELSE IF frac = 0 THEN NumF(0 - whole, 0)
     ELSE NumF(0 - whole - 1, Unit - frac)

\* Number(text): the whole text must be a number; '' is 0
ToNumber(s0) ==
  LET s == Trim(s0)
      body == IF s # <<>> /\ s[1] \in {"-", "+"} THEN Tail(s) ELSE s
      ip == DigitPrefix(body)
      rest == SubSeq(body, Len(ip) + 1, Len(body))
      fp == IF rest # <<>> /\ rest[1] = "." THEN DigitPrefix(Tail(rest)) ELSE <<>>
      used == Len(ip) + (IF rest # <<>> /\ rest[1] = "." THEN 1 + Len(fp) ELSE 0)
  IN IF s = <<>> THEN Num(0)
     ELSE IF used = Len(body) THEN ParseFloat(s) ELSE NaN

-----------------------------------------------------------------------------
(* The canonical enum values and the alias tables *)

Chandigarh == <<"C","h","a","n","d","i","g","a","r","h">>
Mohali == <<"M","o","h","a","l","i">>
Zirakpur == <<"Z","i","r","a","k","p","u","r">>
Panchkula == <<"P","a","n","c","h","k","u","l","a">>
Other == <<"O","t","h","e","r">>
Apartment == <<"A","p","a","r","t","m","e","n","t">>
Villa == <<"V","i","l","l","a">>
Plot == <<"P","l","o","t">>
Office == <<"O","f","f","i","c","e">>
Retail == <<"R","e","t","a","i","l">>
Studio == <<"S","t","u","d","i","o">>
One == <<"O","n","e">>
Two == <<"T","w","o">>
Three == <<"T","h","r","e","e">>
Four == <<"F","o","u","r">>
Buy == <<"B","u","y">>
Rent == <<"R","e","n","t">>
ZeroToThree == <<"Z","e","r","o","T","o","T","h","r","e","e">>
ThreeToSix == <<"T","h","r","e","e","T","o","S","i","x">>
MoreThanSix == <<"M","o","r","e","T","h","a","n","S","i","x">>
Exploring == <<"E","x","p","l","o","r","i","n","g">>
Website == <<"W","e","b","s","i","t","e">>
Referral == <<"R","e","f","e","r","r","a","l">>
WalkIn == <<"W","a","l","k","I","n">>
Call == <<"C","a","l","l">>
New == <<"N","e","w">>
Qualified == <<"Q","u","a","l","i","f","i","e","d">>
Contacted == <<"C","o","n","t","a","c","t","e","d">>
Visited == <<"V","i","s","i","t","e","d">>
Negotiation == <<"N","e","g","o","t","i","a","t","i","o","n">>
Converted == <<"C","o","n","v","e","r","t","e","d">>
Dropped == <<"D","r","o","p","p","e","d">>

\* EnumMappings.city, in the order Object.keys yields it
EnumMappings_city ==
  <<
    <<<<"c","h","a","n","d","i","g","a","r","h">>, Chandigarh>>,
    <<<<"m","o","h","a","l","i">>, Mohali>>,
    <<<<"z","i","r","a","k","p","u","r">>, Zirakpur>>,
    <<<<"p","a","n","c","h","k","u","l","a">>, Panchkula>>,
    <<<<"o","t","h","e","r">>, Other>>,
    <<<<"c","h","d">>, Chandigarh>>,
    <<<<"c","h","a","n","d","i">>, Chandigarh>>,
    <<<<"p","k","u","l","a">>, Panchkula>>,
    <<<<"p","a","n","c","h","u","l","a">>, Panchkula>>
  >>

\* EnumMappings.propertyType, in the order Object.keys yields it
EnumMappings_propertyType ==
  <<
    <<<<"a","p","a","r","t","m","e","n","t">>, Apartment>>,
    <<<<"v","i","l","l","a">>, Villa>>,
    <<<<"p","l","o","t">>, Plot>>,
    <<<<"o","f","f","i","c","e">>, Office>>,
    <<<<"r","e","t","a","i","l">>, Retail>>,
    <<<<"a","p","t">>, Apartment>>,
    <<<<"f","l","a","t">>, Apartment>>,
    <<<<"h","o","u","s","e">>, Villa>>,
    <<<<"b","u","n","g","a","l","o","w">>, Villa>>,
    <<<<"s","h","o","p">>, Retail>>,
    <<<<"c","o","m","m","e","r","c","i","a","l">>, Office>>
  >>

\* EnumMappings.bhk, in the order Object.keys yields it
EnumMappings_bhk ==
  <<
    <<<<"0">>, Studio>>,
    <<<<"1">>, One>>,
    <<<<"2">>, Two>>,
    <<<<"3">>, Three>>,
    <<<<"4">>, Four>>,
    <<<<"s","t","u","d","i","o">>, Studio>>,
    <<<<"o","n","e">>, One>>,
    <<<<"t","w","o">>, Two>>,
    <<<<"t","h","r","e","e">>, Three>>,
    <<<<"f","o","u","r">>, Four>>,
    <<<<"1","b","h","k">>, One>>,
    <<<<"2","b","h","k">>, Two>>,
    <<<<"3","b","h","k">>, Three>>,
    <<<<"4","b","h","k">>, Four>>
  >>

\* EnumMappings.purpose, in the order Object.keys yields it
EnumMappings_purpose ==
  <<
    <<<<"b","u","y">>, Buy>>,
    <<<<"r","e","n","t">>, Rent>>,
    <<<<"p","u","r","c","h","a","s","e">>, Buy>>,
    <<<<"s","a","l","e">>, Buy>>,
    <<<<"r","e","n","t","a","l">>, Rent>>,
    <<<<"l","e","a","s","e">>, Rent>>
  >>

\* EnumMappings.timeline, in the order Object.keys yields it
EnumMappings_timeline ==
  <<
    <<<<"z","e","r","o","t","o","t","h","r","e","e">>, ZeroToThree>>,
    <<<<"t","h","r","e","e","t","o","s","i","x">>, ThreeToSix>>,
    <<<<"m","o","r","e","t","h","a","n","s","i","x">>, MoreThanSix>>,
    <<<<"e","x","p","l","o","r","i","n","g">>, Exploring>>,
    <<<<"0","-","3">>, ZeroToThree>>,
    <<<<"3","-","6">>, ThreeToSix>>,
    <<<<"6","+">>, MoreThanSix>>,
    <<<<"i","m","m","e","d","i","a","t","e">>, ZeroToThree>>,
    <<<<"a","s","a","p">>, ZeroToThree>>,
    <<<<"f","l","e","x","i","b","l","e">>, Exploring>>,
    <<<<"l","a","t","e","r">>, MoreThanSix>>
  >>

\* EnumMappings.source, in the order Object.keys yields it
EnumMappings_source ==
  <<
    <<<<"w","e","b","s","i","t","e">>, Website>>,
    <<<<"r","e","f","e","r","r","a","l">>, Referral>>,
    <<<<"w","a","l","k","i","n">>, WalkIn>>,
    <<<<"c","a","l","l">>, Call>>,
    <<<<"o","t","h","e","r">>, Other>>,
    <<<<"w","e","b">>, Website>>,
    <<<<"o","n","l","i","n","e">>, Website>>,
    <<<<"r","e","f","e","r","e","n","c","e">>, Referral>>,
    <<<<"p","h","o","n","e">>, Call>>,
    <<<<"t","e","l","e","p","h","o","n","e">>, Call>>,
    <<<<"w","a","l","k","-","i","n">>, WalkIn>>,
    <<<<"v","i","s","i","t">>, WalkIn>>
  >>

\* EnumMappings.status, in the order Object.keys yields it
EnumMappings_status ==
  <<
    <<<<"n","e","w">>, New>>,
    <<<<"q","u","a","l","i","f","i","e","d">>, Qualified>>,
    <<<<"c","o","n","t","a","c","t","e","d">>, Contacted>>,
    <<<<"v","i","s","i","t","e","d">>, Visited>>,
    <<<<"n","e","g","o","t","i","a","t","i","o","n">>, Negotiation>>,
    <<<<"c","o","n","v","e","r","t","e","d">>, Converted>>,
    <<<<"d","r","o","p","p","e","d">>, Dropped>>,
    <<<<"f","r","e","s","h">>, New>>,
    <<<<"l","e","a","d">>, New>>,
    <<<<"p","r","o","s","p","e","c","t">>, Qualified>>,
    <<<<"c","a","l","l","e","d">>, Contacted>>,
    <<<<"r","e","a","c","h","e","d">>, Contacted>>,
    <<<<"s","i","t","e","-","v","i","s","i","t">>, Visited>>,
    <<<<"v","i","e","w","i","n","g">>, Visited>>,
    <<<<"d","e","a","l">>, Negotiation>>,
    <<<<"b","a","r","g","a","i","n","i","n","g">>, Negotiation>>,
    <<<<"c","l","o","s","e","d">>, Converted>>,
    <<<<"w","o","n">>, Converted>>,
    <<<<"l","o","s","t">>, Dropped>>,
    <<<<"r","e","j","e","c","t","e","d">>, Dropped>>
  >>

EnumFields == <<"city", "propertyType", "bhk", "purpose", "timeline", "source", "status">>

EnumMapping(field) ==
  CASE field = "city" -> EnumMappings_city
    [] field = "propertyType" -> EnumMappings_propertyType
    [] field = "bhk" -> EnumMappings_bhk
    [] field = "purpose" -> EnumMappings_purpose
    [] field = "timeline" -> EnumMappings_timeline
    [] field = "source" -> EnumMappings_source
    [] field = "status" -> EnumMappings_status

\* the `valid` lists of validateRow, which are the z.enum lists of the schema too
ValidValues(field) ==
  CASE field = "city" -> {Chandigarh, Mohali, Zirakpur, Panchkula, Other}
    [] field = "propertyType" -> {Apartment, Villa, Plot, Office, Retail}
    [] field = "bhk" -> {Studio, One, Two, Three, Four}
    [] field = "purpose" -> {Buy, Rent}
    [] field = "timeline" -> {ZeroToThree, ThreeToSix, MoreThanSix, Exploring}
    [] field = "source" -> {Website, Referral, WalkIn, Call, Other}
    [] field = "status" -> {New, Qualified, Contacted, Visited, Negotiation, Converted, Dropped}

RequiredFields == <<"fullName", "phone", "city", "propertyType", "purpose", "timeline", "source">>

-----------------------------------------------------------------------------
(* CSVDataCleaner *)

\* variant: a leading 91 removed whatever the number of digits
cleanPhoneNumber_any91(phone) ==
  LET cleaned == SelectSeq(phone, IsDigit)
  IN IF StartsWith(cleaned, <<"9","1">>) THEN SubSeq(cleaned, 3, Len(cleaned)) ELSE cleaned

cleanPhoneNumber(phone) ==
  IF phone = <<>> THEN <<>>
  ELSE LET cleaned == SelectSeq(phone, IsDigit)
       IN IF StartsWith(cleaned, <<"9","1">>) /\ Len(cleaned) = 12
            THEN SubSeq(cleaned, 3, Len(cleaned))
            ELSE cleaned

cleanEmail(email) == IF email = <<>> THEN <<>> ELSE Trim(ToLowerCase(email))

\* isNaN(num) ? undefined : num * 100000, and the same with 10000000
TimesLakh(v) == IF v.t = "NaN" THEN Undefined ELSE Num(v.n * 100000 + v.f * 100)
TimesCrore(v) == IF v.t = "NaN" THEN Undefined ELSE Num(v.n * 10000000 + v.f * 10000)

cleanBudget(budget) ==
  IF budget = <<>> \/ Trim(budget) = <<>> THEN Undefined
  ELSE LET cleaned == StripChars(budget, {Rupee, ",", "$"} \cup WhiteSpace)
       IN IF Includes(ToLowerCase(cleaned), <<"l">>)
            THEN TimesLakh(ParseFloat(RemoveAllCI(cleaned, <<"l">>)))
          ELSE IF Includes(ToLowerCase(cleaned), <<"c","r">>)
            THEN TimesCrore(ParseFloat(RemoveAllCI(cleaned, <<"c","r">>)))
          ELSE LET num == ParseFloat(cleaned)
               IN IF num.t = "NaN" THEN Undefined ELSE num

\* JSON.parse(text) when text is an array of string literals (no escapes, no
\* comma inside a literal), of numbers or of null: the elements as String(tag)
\* gives them.  Every other text either fails to parse or parses to a
\* non-array; both fall through to the comma split.
JSONElement(e0) ==
  LET e == Trim(e0)
  IN IF Len(e) >= 2 /\ e[1] = "\"" /\ e[Len(e)] = "\""
          /\ \A i \in 2..(Len(e) - 1) : e[i] \notin {"\"", "\\"}
       THEN Str(SubSeq(e, 2, Len(e) - 1))
     ELSE IF e = <<"n","u","l","l">> THEN Str(e)
     ELSE IF e # <<>> /\ \A i \in 1..Len(e) : IsDigit(e[i])
                /\ (Len(e) = 1 \/ e[1] # "0") THEN Str(e)
     ELSE Undefined

IsJSONArray(tags) ==
  LET t == Trim(tags)
  IN /\ Len(t) >= 2 /\ t[1] = "[" /\ t[Len(t)] = "]"
     /\ LET inner == SubSeq(t, 2, Len(t) - 1)
        IN \/ Trim(inner) = <<>>
           \/ LET parts == Split(inner, ",")
              IN \A i \in 1..Len(parts) : JSONElement(parts[i]).t = "string"

JSONArray(tags) ==
  LET t == Trim(tags)
      inner == SubSeq(t, 2, Len(t) - 1)
      parts == Split(inner, ",")
  IN IF Trim(inner) = <<>> THEN <<>>
     ELSE [i \in 1..Len(parts) |-> JSONElement(parts[i]).s]

cleanTags(tags) ==
  IF tags = <<>> \/ Trim(tags) = <<>> \/ Trim(tags) = <<"[", "]">> THEN <<>>
  ELSE IF IsJSONArray(tags)
    THEN SelectSeq([i \in 1..Len(JSONArray(tags)) |-> Trim(JSONArray(tags)[i])],
                   LAMBDA tag : tag # <<>>)
    ELSE LET parts == Split(tags, ",")
         IN SelectSeq([i \in 1..Len(parts) |-> Trim(parts[i])],
                      LAMBDA tag : /\ tag # <<>>
                                   /\ tag # <<"[", "]">>
                                   /\ tag # <<"n","u","l","l">>
                                   /\ tag # <<"u","n","d","e","f","i","n","e","d">>)

\* mapEnumValue: Null, or Str(canonical value)
mapEnumValue(field, value) ==
  IF value = <<>> \/ Trim(value) = <<>> THEN Null
  ELSE LET cleanValue == Trim(ToLowerCase(value))
           mapping == EnumMapping(field)
           direct == {i \in 1..Len(mapping) : mapping[i][1] = cleanValue}
           fuzzy == {i \in 1..Len(mapping) :
                       \/ Includes(cleanValue, mapping[i][1])
                       \/ Includes(mapping[i][1], cleanValue)}
       IN IF direct # {} THEN Str(mapping[CHOOSE i \in direct : TRUE][2])
          ELSE IF fuzzy # {}
            THEN Str(mapping[CHOOSE i \in fuzzy : \A j \in fuzzy : i <= j][2])
          ELSE Null

\* what the functions below do when handed a value that is not a string
\* (value.trim, value.replace, value.toLowerCase is not a function)
NotAString(v) == Truthy(v) /\ v.t # "string"

cleanRowDataThrows(row) ==
  \E key \in {"phone", "email", "budgetMin", "budgetMax", "tags", "city",
              "propertyType", "bhk", "purpose", "timeline", "source", "status"} :
    NotAString(Get(row, key))

\* cleanRowData up to and including the enum mapping (lines 192-237)
cleanFields(row) ==
  LET trimmed == [k \in DOMAIN row |->
                    IF row[k].t = "string" THEN Str(Trim(row[k].s)) ELSE row[k]]
  IN [k \in DOMAIN row |->
        LET v == trimmed[k]
        IN IF ~Truthy(v) THEN v
           ELSE IF k = "phone" THEN Str(cleanPhoneNumber(v.s))
           ELSE IF k = "email"
             THEN (IF cleanEmail(v.s) = <<>> THEN Null ELSE Str(cleanEmail(v.s)))
           ELSE IF k \in {"budgetMin", "budgetMax"} THEN cleanBudget(v.s)
           ELSE IF k = "tags"
             THEN Arr(cleanTags(v.s))
           ELSE IF \E i \in 1..Len(EnumFields) : EnumFields[i] = k
             THEN (IF Truthy(mapEnumValue(k, v.s)) THEN mapEnumValue(k, v.s) ELSE v)
           ELSE v]

\* the final pass over '' values (lines 239-256)
cleanRowData(row) ==
  LET cleaned == cleanFields(row)
  IN [k \in DOMAIN cleaned |->
        IF cleaned[k] # Str(<<>>) THEN cleaned[k]
        ELSE IF k \in {"email", "notes", "status"} THEN Null
        ELSE IF k \in {"budgetMin", "budgetMax"} THEN Undefined
        ELSE IF k = "bhk"
          THEN (IF Get(cleaned, "propertyType") \in {Str(Plot), Str(Office), Str(Retail)}
                  THEN Null ELSE Str(<<>>))
        ELSE cleaned[k]]

-----------------------------------------------------------------------------
(* CSVRowValidator.validateRow *)

PHONE_MIN == 10
PHONE_MAX == 15
NAME_MIN == 2
NAME_MAX == 80
NOTES_MAX == 1000

\* an error or warning message: what it is about and the values it quotes
Msg(kind, field, detail) == [kind |-> kind, field |-> field, detail |-> detail]

\* /^[^\s@]+@[^\s@]+\.[^\s@]+$/
emailRegex(e) ==
  /\ \A i \in 1..Len(e) : ~IsSpace(e[i])
  /\ Cardinality({i \in 1..Len(e) : e[i] = "@"}) = 1
  /\ LET at == CHOOSE i \in 1..Len(e) : e[i] = "@"
     IN /\ at > 1
        /\ \E d \in (at + 2)..(Len(e) - 1) : e[d] = "."

Cond(b, m) == IF b THEN <<m>> ELSE <<>>

RECURSIVE Flatten(_)
Flatten(ss) == IF ss = <<>> THEN <<>> ELSE Head(ss) \o Flatten(Tail(ss))

\* variant: the required-field loop left at the first missing field
requiredErrors_firstOnly(row) ==
  LET missing == {i \in 1..Len(RequiredFields) :
                    LET v == Get(row, RequiredFields[i])
                    IN ~Truthy(v) \/ (v.t = "string" /\ Trim(v.s) = <<>>)}
  IN IF missing = {} THEN <<>>
     ELSE <<Msg("required",
                RequiredFields[CHOOSE i \in missing : \A j \in missing : i <= j], <<>>)>>

requiredErrors(row) ==
  Flatten([i \in 1..Len(RequiredFields) |->
    LET v == Get(row, RequiredFields[i])
    IN Cond(~Truthy(v) \/ (v.t = "string" /\ Trim(v.s) = <<>>),
            Msg("required", RequiredFields[i], <<>>))])

phoneErrors(row) ==
  LET v == Get(row, "phone")
      cleanPhone == cleanPhoneNumber(v.s)
  IN Cond(Truthy(v) /\ (Len(cleanPhone) < PHONE_MIN \/ Len(cleanPhone) > PHONE_MAX),
          Msg("phoneDigits", "phone", <<cleanPhone>>))

emailErrors(row) ==
  LET v == Get(row, "email")
  IN Cond(Truthy(v) /\ ~emailRegex(v.s), Msg("emailFormat", "email", <<v.s>>))

\* the enum loop: a value outside the valid list gives a warning when
\* mapEnumValue has a suggestion for it and an error when it has none
EnumOff(row, field) ==
  Truthy(Get(row, field)) /\ Get(row, field).s \notin ValidValues(field)

enumErrors(row) ==
  Flatten([i \in 1..Len(EnumFields) |->
    LET f == EnumFields[i]
    IN Cond(EnumOff(row, f) /\ ~Truthy(mapEnumValue(f, Get(row, f).s)),
            Msg("enum", f, <<Get(row, f).s>>))])

enumWarnings(row) ==
  Flatten([i \in 1..Len(EnumFields) |->
    LET f == EnumFields[i]
    IN Cond(EnumOff(row, f) /\ Truthy(mapEnumValue(f, Get(row, f).s)),
            Msg("mapped", f, <<Get(row, f).s, mapEnumValue(f, Get(row, f).s).s>>))])

NeedsBhk(row) == Get(row, "propertyType") \in {Str(Apartment), Str(Villa)}
ForbidsBhk(row) == Get(row, "propertyType") \in {Str(Plot), Str(Office), Str(Retail)}

bhkErrors(row) ==
  Cond(NeedsBhk(row) /\ ~Truthy(Get(row, "bhk")),
       Msg("bhkRequired", "bhk", <<Get(row, "propertyType").s>>))

bhkWarnings(row) ==
  Cond(ForbidsBhk(row) /\ Truthy(Get(row, "bhk")),
       Msg("bhkDropped", "bhk", <<Get(row, "propertyType").s, Get(row, "bhk").s>>))

\* variant: the comparison written <= , which also rejects equal budgets
budgetErrors_rejectsEqual(row) ==
  LET lo == Get(row, "budgetMin")
      hi == Get(row, "budgetMax")
  IN Cond(Truthy(lo) /\ Truthy(hi) /\ ~Less(lo, hi),
          Msg("budgetOrder", "budgetMax", <<hi, lo>>))

\* if (row.budgetMin && row.budgetMax) { if (row.budgetMax < row.budgetMin) ... }
budgetErrors(row) ==
  LET lo == Get(row, "budgetMin")
      hi == Get(row, "budgetMax")
  IN Cond(Truthy(lo) /\ Truthy(hi) /\ Less(hi, lo),
          Msg("budgetOrder", "budgetMax", <<hi, lo>>))

notesErrors(row) ==
  LET v == Get(row, "notes")
  IN Cond(Truthy(v) /\ Len(v.s) > NOTES_MAX, Msg("notesLength", "notes", <<Len(v.s)>>))

nameErrors(row) ==
  LET v == Get(row, "fullName")
  IN Cond(Truthy(v) /\ (Len(v.s) < NAME_MIN \/ Len(v.s) > NAME_MAX),
          Msg("nameLength", "fullName", <<Len(v.s)>>))

\* variant: no auto-fix, the row is left as it was given
validateRowFix_kept(row) == row

\* row.bhk = null, the auto-fix: validateRow changes the row it is given
validateRowFix(row) ==
  IF ForbidsBhk(row) /\ Truthy(Get(row, "bhk"))
    THEN [k \in DOMAIN row |-> IF k = "bhk" THEN Null ELSE row[k]]
    ELSE row

validateRow(row) ==
  LET errors == requiredErrors(row) \o phoneErrors(row) \o emailErrors(row)
                  \o enumErrors(row) \o bhkErrors(row) \o budgetErrors(row)
                  \o notesErrors(row) \o nameErrors(row)
      warnings == enumWarnings(row) \o bhkWarnings(row)
  IN [isValid |-> errors = <<>>, errors |-> errors, warnings |-> warnings,
      row |-> validateRowFix(row)]

-----------------------------------------------------------------------------
(* csvRowSchema and validateCSVRow (zod) *)

\* z.string().email(): local part of letters, digits and _'+-. that neither
\* starts nor ends with a dot nor holds two dots in a row; a domain of
\* dot-separated labels of letters, digits and hyphens, each starting with a
\* letter or digit; a last label of two or more letters
LocalChar(c) == IsLetter(c) \/ IsDigit(c) \/ c \in {"_", "'", "+", "-", "."}
LabelChar(c) == IsLetter(c) \/ IsDigit(c) \/ c = "-"

zodEmail(e) ==
  /\ Cardinality({i \in 1..Len(e) : e[i] = "@"}) = 1
  /\ LET at == CHOOSE i \in 1..Len(e) : e[i] = "@"
         local == SubSeq(e, 1, at - 1)
         labels == Split(SubSeq(e, at + 1, Len(e)), ".")
         tld == labels[Len(labels)]
     IN /\ local # <<>>
        /\ \A i \in 1..Len(local) : LocalChar(local[i])
        /\ local[1] # "." /\ local[Len(local)] # "."
        /\ ~Includes(e, <<".", ".">>)
        /\ Len(labels) >= 2
        /\ \A i \in 1..Len(labels) :
             /\ labels[i] # <<>>
             /\ labels[i][1] # "-"
             /\ \A j \in 1..Len(labels[i]) : LabelChar(labels[i][j])
        /\ Len(tld) >= 2
        /\ \A j \in 1..Len(tld) : IsLetter(tld[j])

\* z.coerce.number(): Number(input)
Coerce(v) ==
  CASE v.t = "number" -> v
    [] v.t = "string" -> ToNumber(v.s)
    [] v.t = "null" -> Num(0)
    [] OTHER -> NaN

\* z.string().min(2).max(80)
zodFullName(v) ==
  IF v.t # "string" THEN <<Msg("zod:invalid_type", "fullName", <<>>)>>
  ELSE Cond(Len(v.s) < NAME_MIN, Msg("zod:too_small", "fullName", <<>>))
       \o Cond(Len(v.s) > NAME_MAX, Msg("zod:too_big", "fullName", <<>>))

\* z.string().email().optional().or(z.literal(''))
zodEmailField(v) ==
  Cond(~(\/ v.t = "undefined"
         \/ v.t = "string" /\ (v.s = <<>> \/ zodEmail(v.s))),
       Msg("zod:invalid", "email", <<>>))

\* phoneSchema: strip the non-digits, then 10 <= length <= 15
zodPhone(v) ==
  IF v.t # "string" THEN <<Msg("zod:invalid_type", "phone", <<>>)>>
  ELSE LET val == SelectSeq(v.s, IsDigit)
       IN Cond(~(Len(val) >= PHONE_MIN /\ Len(val) <= PHONE_MAX),
               Msg("zod:phoneDigits", "phone", <<>>))

\* z.enum([...])
zodEnum(field, v) ==
  Cond(~(v.t = "string" /\ v.s \in ValidValues(field)),
       Msg("zod:invalid_enum_value", field, <<>>))

\* BHKEnum.optional().or(z.literal('').transform(() => null)).or(z.null())
zodBhk(v) ==
  Cond(~(\/ v.t \in {"undefined", "null"}
         \/ v.t = "string" /\ (v.s = <<>> \/ v.s \in ValidValues("bhk"))),
       Msg("zod:invalid", "bhk", <<>>))

\* z.coerce.number().int().min(0).optional().or(z.literal(''))
zodBudget(field, v) ==
  Cond(~(\/ v.t = "undefined"
         \/ IsInteger(Coerce(v)) /\ Coerce(v).n >= 0),
       Msg("zod:invalid", field, <<>>))

\* z.string().max(1000).optional().or(z.literal(''))
zodNotes(v) ==
  Cond(~(\/ v.t = "undefined"
         \/ v.t = "string" /\ Len(v.s) <= NOTES_MAX),
       Msg("zod:invalid", "notes", <<>>))

\* z.array(z.string()).optional().or(z.literal(''))
zodTags(v) ==
  Cond(~(v.t \in {"undefined", "array"} \/ v = Str(<<>>)),
       Msg("zod:invalid", "tags", <<>>))

\* StatusEnum.optional().or(z.literal(''))
zodStatus(v) ==
  Cond(~(\/ v.t = "undefined"
         \/ v.t = "string" /\ (v.s = <<>> \/ v.s \in ValidValues("status"))),
       Msg("zod:invalid", "status", <<>>))

\* the z.object({...}) part: the issues of the fields, in the schema's order
zodObjectIssues(row) ==
  zodFullName(Get(row, "fullName")) \o zodEmailField(Get(row, "email"))
    \o zodPhone(Get(row, "phone")) \o zodEnum("city", Get(row, "city"))
    \o zodEnum("propertyType", Get(row, "propertyType")) \o zodBhk(Get(row, "bhk"))
    \o zodEnum("purpose", Get(row, "purpose"))
    \o zodBudget("budgetMin", Get(row, "budgetMin"))
    \o zodBudget("budgetMax", Get(row, "budgetMax"))
    \o zodEnum("timeline", Get(row, "timeline")) \o zodEnum("source", Get(row, "source"))
    \o zodNotes(Get(row, "notes")) \o zodTags(Get(row, "tags"))
    \o zodStatus(Get(row, "status"))

\* first .refine: data.bhk is what the bhk union parsed to ('' became null)
zodBhkRefine(row) ==
  Cond(NeedsBhk(row) /\ ~(Get(row, "bhk").t = "string" /\ Get(row, "bhk").s # <<>>),
       Msg("zod:bhkRequired", "bhk", <<>>))

\* second .refine, on the coerced budgets
zodBudgetRefine(row) ==
  LET lo == IF Get(row, "budgetMin").t = "undefined" THEN Undefined
            ELSE Coerce(Get(row, "budgetMin"))
      hi == IF Get(row, "budgetMax").t = "undefined" THEN Undefined
            ELSE Coerce(Get(row, "budgetMax"))
  IN Cond(Truthy(lo) /\ Truthy(hi) /\ ~AtLeast(hi, lo),
          Msg("zod:budgetOrder", "budgetMax", <<>>))

\* validateBudget(budgetMin?, budgetMax?) of validators/buyer
validateBudget(budgetMin, budgetMax) ==
  IF Truthy(budgetMin) /\ Truthy(budgetMax) THEN AtLeast(budgetMax, budgetMin) ELSE TRUE

\* the refinements run only on an object whose fields all parsed
csvRowSchemaIssues(row) ==
  IF zodObjectIssues(row) # <<>> THEN zodObjectIssues(row)
  ELSE zodBhkRefine(row) \o zodBudgetRefine(row)

validateCSVRow(row) ==
  [isValid |-> csvRowSchemaIssues(row) = <<>>, errors |-> csvRowSchemaIssues(row)]

-----------------------------------------------------------------------------
(* One parsed row through the pipeline of the row loop:                     *)
(* cleanRowData, then validateRow, then validateCSVRow.                     *)

\* the largest budget figure among the sample rows
MaxBudget == 2

RECURSIVE NatToDigits(_)
NatToDigits(n) ==
  LET d == <<"0","1","2","3","4","5","6","7","8","9">>[(n % 10) + 1]
  IN IF n < 10 THEN <<d>> ELSE NatToDigits(n \div 10) \o <<d>>

Repeat(c, n) == [i \in 1..n |-> c]

AllHeaders == {"fullName", "email", "phone", "city", "propertyType", "bhk", "purpose",
               "budgetMin", "budgetMax", "timeline", "source", "notes", "tags", "status"}
RequiredHeaderSet == {RequiredFields[i] : i \in 1..Len(RequiredFields)}

FullNameSamples == {<<"J","o","h","n">>, <<"J">>}
PhoneSamples == {<<"9","8","7","6","5","4","3","2","1","0">>, <<"1","2","3">>}
EmailSamples == {<<>>, <<"a","@","b",".","c","o">>, <<"b","a","d">>}
CitySamples == {Chandigarh, <<"x","y","z">>}
PropertyTypeSamples == {Apartment, Plot}
BhkSamples == {<<>>, Two}
BudgetSamples == {<<>>} \cup {NatToDigits(n) : n \in 0..MaxBudget}
NotesSamples == {<<>>, <<"h","i">>, Repeat("x", NOTES_MAX + 1)}
TagsSamples == {<<"a",","," ","b">>}
StatusSamples == {<<>>, New}

SampleRows ==
  {[fullName |-> Str(fn), email |-> Str(em), phone |-> Str(ph), city |-> Str(ci),
    propertyType |-> Str(pt), bhk |-> Str(bh), purpose |-> Str(Buy),
    budgetMin |-> Str(lo), budgetMax |-> Str(hi), timeline |-> Str(ZeroToThree),
    source |-> Str(Website), notes |-> Str(no), tags |-> Str(tg), status |-> Str(st)] :
     fn \in FullNameSamples, em \in EmailSamples, ph \in PhoneSamples,
     ci \in CitySamples, pt \in PropertyTypeSamples, bh \in BhkSamples,
     lo \in BudgetSamples, hi \in BudgetSamples, no \in NotesSamples,
     tg \in TagsSamples, st \in StatusSamples}

\* rows for the required-field check: a row with nothing else wrong and a row
\* with everything else wrong, a subset of the required fields taken out
\* (the key absent, its value empty, or its value blank)
BaseRowOk ==
  [fullName |-> Str(<<"J","o","h","n">>), email |-> Str(<<"a","@","b",".","c","o">>),
   phone |-> Str(<<"9","8","7","6","5","4","3","2","1","0">>), city |-> Str(Chandigarh),
   propertyType |-> Str(Apartment), bhk |-> Str(Two), purpose |-> Str(Buy),
   budgetMin |-> Str(<<"1">>), budgetMax |-> Str(<<"2">>), timeline |-> Str(ZeroToThree),
   source |-> Str(Website), notes |-> Str(<<"h","i">>), tags |-> Str(<<>>),
   status |-> Str(New)]

BaseRowBad ==
  [fullName |-> Str(<<"J">>), email |-> Str(<<"b","a","d">>),
   phone |-> Str(<<"1","2","3">>), city |-> Str(<<"x","y","z">>),
   propertyType |-> Str(Villa), bhk |-> Str(<<>>), purpose |-> Str(<<"q","q">>),
   budgetMin |-> Str(<<"2">>), budgetMax |-> Str(<<"1">>), timeline |-> Str(ZeroToThree),
   source |-> Str(Website), notes |-> Str(Repeat("x", NOTES_MAX + 1)), tags |-> Str(<<>>),
   status |-> Str(<<"z","z","z">>)]

Without(row, fields, how) ==
  IF how = "absent" THEN [k \in (DOMAIN row) \ fields |-> row[k]]
  ELSE [k \in DOMAIN row |->
          IF k \notin fields THEN row[k]
          ELSE IF how = "empty" THEN Str(<<>>) ELSE Str(<<" ", " ">>)]

BlankedRows ==
  {Without(r, fields, how) :
     r \in {BaseRowOk, BaseRowBad}, fields \in SUBSET RequiredHeaderSet,
     how \in {"absent", "empty", "blank"}}

\* rows whose enum fields hold aliases of canonical values
AliasRows ==
  {[BaseRowOk EXCEPT !["city"] = Str(ci), !["purpose"] = Str(pu), !["status"] = Str(st)] :
     ci \in {Chandigarh, <<"c","h","d">>, <<"C","H","D">>, <<"p","k","u","l","a">>},
     pu \in {Buy, <<"b","u","y">>},
     st \in {New, <<"n","e","w">>, <<>>}}

\* Plot, Office and Retail rows that carry a bhk: canonical, an alias, no
\* bhk value at all
BhkRows ==
  {[BaseRowOk EXCEPT !["propertyType"] = Str(pt), !["bhk"] = Str(bh)] :
     pt \in {Plot, Office, Retail},
     bh \in {Two, <<"2">>, <<"3"," ","b","h","k">>, <<"x","y","z">>, <<"5">>}}

\* rows for the phone rule: country code or none, digits among other
\* characters, no digit at all, 9 to 16 digits
PhoneTexts ==
  {<<"9","1","9","8","7","6","5","4","3","2","1","0">>,
   <<"+","9","1"," ","9","8","7","6","5","-","4","3","2","1","0">>,
   <<"1","2","9","8","7","6","5","4","3","2","1","0">>,
   <<"9","1","9","8","7","6","5","4","3","2">>,
   <<"9","1","9","8","7","6","5","4","3","2","1">>,
   <<"9","1","9","8","7","6","5","4","3","2","1","0","1">>,
   <<"1","2","3">>, <<"a","b","c">>, <<" "," ">>,
   Repeat("7", PHONE_MIN - 1), Repeat("7", PHONE_MAX), Repeat("7", PHONE_MAX + 1)}

PhoneRows ==
  {[r EXCEPT !["phone"] = Str(ph)] : r \in {BaseRowOk, BaseRowBad}, ph \in PhoneTexts}

FocusRows == BlankedRows \cup AliasRows \cup BhkRows \cup PhoneRows

Restrict(row, keys) == [k \in (DOMAIN row) \cap keys |-> row[k]]

NoRow == [none |-> Undefined]
NoVerdict == [isValid |-> FALSE, errors |-> <<>>, warnings |-> <<>>]

RowIdle ==
  /\ rpc = "off" /\ rawRow = NoRow /\ cleanedRow = NoRow
  /\ enhanced = NoVerdict /\ zodRes = NoVerdict

UnitIdle == ufn = "off" /\ uarg = NoRow /\ uout = NoRow

DebounceIdle ==
  /\ clock = 0 /\ wait = 0 /\ timeout = 0 /\ timers = {}
  /\ callLog = <<>> /\ invocations = <<>>

UpdateIdle ==
  /\ now = 0 /\ buyerTable = <<>> /\ history = <<>> /\ req = <<>>
  /\ upc = <<>> /\ currentBuyer = <<>> /\ resp = <<>>

ImportIdle ==
  /\ pc = "off" /\ file = NoRow /\ result = NoRow /\ parseData = <<>>
  /\ validRows = <<>> /\ idx = 0 /\ buyers = <<>> /\ rowLog = <<>>
  /\ calls = [parser |-> 0, clean |-> 0, createMany |-> 0]

RowInit ==
  /\ rpc = "raw"
  /\ \/ \E r \in SampleRows, h \in {AllHeaders, RequiredHeaderSet} : rawRow = Restrict(r, h)
     \/ rawRow \in FocusRows
  /\ cleanedRow = NoRow
  /\ enhanced = NoVerdict
  /\ zodRes = NoVerdict
  /\ ImportIdle /\ UnitIdle /\ UpdateIdle /\ DebounceIdle

\* line 162
CleanRow ==
  /\ rpc = "raw"
  /\ ~cleanRowDataThrows(rawRow)
  /\ cleanedRow' = cleanRowData(rawRow)
  /\ rpc' = "cleaned"
  /\ UNCHANGED <<rawRow, enhanced, zodRes>>
  /\ UNCHANGED <<importVars, unitVars, updateVars, debounceVars>>

\* line 165; validateRow's auto-fix changes cleanedRow itself
ValidateRow ==
  /\ rpc = "cleaned"
  /\ LET v == validateRow(cleanedRow)
     IN /\ enhanced' = [isValid |-> v.isValid, errors |-> v.errors, warnings |-> v.warnings]
        /\ cleanedRow' = v.row
  /\ rpc' = "validated"
  /\ UNCHANGED <<rawRow, zodRes>>
  /\ UNCHANGED <<importVars, unitVars, updateVars, debounceVars>>

\* line 166
ValidateCSVRow ==
  /\ rpc = "validated"
  /\ LET v == validateCSVRow(cleanedRow)
     IN zodRes' = [isValid |-> v.isValid, errors |-> v.errors, warnings |-> <<>>]
  /\ rpc' = "checked"
  /\ UNCHANGED <<rawRow, cleanedRow, enhanced>>
  /\ UNCHANGED <<importVars, unitVars, updateVars, debounceVars>>

RowNext == CleanRow \/ ValidateRow \/ ValidateCSVRow

RowSpec == RowInit /\ [][RowNext]_vars

-----------------------------------------------------------------------------
(* CSVParser, from the tokenised lines on.  A file's content is its        *)
(* non-blank lines, each the sequence of its cells; line 1 is the header.  *)

\* the format pre-check reads lines[1] .. lines[Math.min(lines.length, 6) - 1]
FORMAT_CHECK_LINES == 6

Min(a, b) == IF a <= b THEN a ELSE b

validateCSVFormat(lines) ==
  IF lines = <<>> THEN [isValid |-> FALSE, error |-> "CSV file is empty"]
  ELSE IF Len(lines) < 2
    THEN [isValid |-> FALSE, error |-> "CSV must have at least a header row and one data row"]
  ELSE IF Len(lines[1]) < 2
    THEN [isValid |-> FALSE, error |-> "CSV must be comma-separated"]
  ELSE IF \E i \in 2..Min(Len(lines), FORMAT_CHECK_LINES) : Len(lines[i]) # Len(lines[1])
    THEN [isValid |-> FALSE, error |-> "Column count mismatch detected"]
  ELSE [isValid |-> TRUE, error |-> ""]

\* variant: every short line filled with empty values
fixColumns_padOnly(values, expectedColumns) ==
  IF Len(values) >= expectedColumns THEN SubSeq(values, 1, expectedColumns)
  ELSE values \o [i \in 1..(expectedColumns - Len(values)) |-> <<>>]

\* the auto-fix of a data line whose column count differs from the header's
fixColumns(values, expectedColumns) ==
  IF Len(values) = expectedColumns THEN values
  ELSE IF Len(values) = expectedColumns - 1 THEN Append(values, New)
  ELSE IF Len(values) > expectedColumns THEN SubSeq(values, 1, expectedColumns)
  ELSE values \o [i \in 1..(expectedColumns - Len(values)) |-> <<>>]

columnDiagnostic(values, expectedColumns) ==
  IF Len(values) = expectedColumns - 1 THEN "Added default status 'New'"
  ELSE IF Len(values) > expectedColumns THEN "Extra columns removed"
  ELSE "Missing columns filled with empty values"

\* row[header] = (values[index] || '').trim(), for every header
rowObject(headers, values) ==
  [h \in {headers[k] : k \in 1..Len(headers)} |->
     LET k == CHOOSE k \in 1..Len(headers) :
                headers[k] = h /\ \A m \in 1..Len(headers) : headers[m] = h => m <= k
     IN Str(IF k <= Len(values) THEN Trim(values[k]) ELSE <<>>)]

\* parseCSV: data and errors.  The line at JavaScript index i (the header is
\* index 0) is lines[i + 1] here, and its diagnostic carries row i + 1.
parseCSV(lines) ==
  IF ~validateCSVFormat(lines).isValid
    THEN [data |-> <<>>,
          errors |-> <<[row |-> 0, message |-> validateCSVFormat(lines).error,
                        rawData |-> Undefined]>>]
  ELSE LET headers == lines[1]
           expectedColumns == Len(headers)
       IN [data |-> [j \in 1..(Len(lines) - 1) |->
                       rowObject(headers, fixColumns(lines[j + 1], expectedColumns))],
           errors |-> Flatten([j \in 1..(Len(lines) - 1) |->
                       Cond(Len(lines[j + 1]) # expectedColumns,
                            [row |-> j + 1,
                             message |-> columnDiagnostic(lines[j + 1], expectedColumns),
                             rawData |-> lines[j + 1]])])]

\* parseCSVLine, the loop: the rest of the line, the cell being read, whether
\* a quote is open, the cells read
RECURSIVE parseCSVLineFrom(_, _, _, _)
parseCSVLineFrom(line, current, inQuotes, cells) ==
  IF line = <<>> THEN Append(cells, Trim(current))
  ELSE LET char == Head(line)
           rest == Tail(line)
       IN IF char = "\""
            THEN (IF inQuotes /\ rest # <<>> /\ Head(rest) = "\""
                    THEN parseCSVLineFrom(Tail(rest), Append(current, "\""), inQuotes, cells)
                    ELSE parseCSVLineFrom(rest, current, ~inQuotes, cells))
          ELSE IF char = "," /\ ~inQuotes
            THEN parseCSVLineFrom(rest, <<>>, inQuotes, Append(cells, Trim(current)))
          ELSE parseCSVLineFrom(rest, Append(current, char), inQuotes, cells)

\* variant: every comma taken for a delimiter
parseCSVLine_everyComma(line) ==
  LET cells == Split(line, ",")
  IN [i \in 1..Len(cells) |-> Trim(StripChars(cells[i], {"\""}))]

parseCSVLine(line) == parseCSVLineFrom(line, <<>>, FALSE, <<>>)

\* content.trim().split('\n').filter(line => line.trim())
contentLines(content) ==
  SelectSeq(Split(Trim(content), "\n"), LAMBDA line : Trim(line) # <<>>)

\* variant: the column counts of the first data rows not looked at
validateCSVFormat_content_noCount(content) ==
  IF Trim(content) = <<>> THEN [isValid |-> FALSE, error |-> "CSV file is empty"]
  ELSE IF Len(contentLines(content)) < 2
    THEN [isValid |-> FALSE, error |-> "CSV must have at least a header row and one data row"]
  ELSE IF ~Includes(Trim(contentLines(content)[1]), <<",">>)
    THEN [isValid |-> FALSE, error |-> "CSV must be comma-separated"]
  ELSE [isValid |-> TRUE, error |-> ""]

\* validateCSVFormat, on the text of the file
validateCSVFormat_content(content) ==
  IF content = <<>> \/ Trim(content) = <<>>
    THEN [isValid |-> FALSE, error |-> "CSV file is empty"]
  ELSE LET lines == contentLines(content)
       IN IF Len(lines) < 2
            THEN [isValid |-> FALSE,
                  error |-> "CSV must have at least a header row and one data row"]
          ELSE IF ~Includes(Trim(lines[1]), <<",">>)
            THEN [isValid |-> FALSE, error |-> "CSV must be comma-separated"]
          ELSE IF \E i \in 2..Min(Len(lines), FORMAT_CHECK_LINES) :
                    Len(parseCSVLine(lines[i])) # Len(parseCSVLine(Trim(lines[1])))
            THEN [isValid |-> FALSE, error |-> "Column count mismatch detected"]
          ELSE [isValid |-> TRUE, error |-> ""]

\* parseCSV, on the text of the file: the line at JavaScript index i is
\* lines[i + 1], its diagnostic carries row i + 1 and the trimmed line
parseCSV_content(content) ==
  LET formatValidation == validateCSVFormat_content(content)
  IN IF ~formatValidation.isValid
       THEN [data |-> <<>>,
             errors |-> <<[row |-> 0, message |-> formatValidation.error,
                           rawData |-> Undefined]>>]
     ELSE LET lines == contentLines(content)
              headers == parseCSVLine(lines[1])
              expectedColumns == Len(headers)
              values == [j \in 1..(Len(lines) - 1) |-> parseCSVLine(Trim(lines[j + 1]))]
          IN [data |-> [j \in 1..(Len(lines) - 1) |->
                          rowObject(headers, fixColumns(values[j], expectedColumns))],
              errors |-> Flatten([j \in 1..(Len(lines) - 1) |->
                          Cond(Len(values[j]) # expectedColumns,
                               [row |-> j + 1,
                                message |-> columnDiagnostic(values[j], expectedColumns),
                                rawData |-> Trim(lines[j + 1])])])]

\* variant: satisfied as soon as one required header is there
validateRequiredHeaders_some(data, requiredHeaders) ==
  LET missingHeaders ==
        IF data = <<>> THEN requiredHeaders
        ELSE SelectSeq(requiredHeaders, LAMBDA h : h \notin DOMAIN data[1])
  IN [isValid |-> data # <<>> /\ Len(missingHeaders) < Len(requiredHeaders),
      missingHeaders |-> missingHeaders]

validateRequiredHeaders(data, requiredHeaders) ==
  LET missingHeaders ==
        IF data = <<>> THEN requiredHeaders
        ELSE SelectSeq(requiredHeaders, LAMBDA h : h \notin DOMAIN data[1])
  IN [isValid |-> data # <<>> /\ missingHeaders = <<>>, missingHeaders |-> missingHeaders]

-----------------------------------------------------------------------------
(* CSVImportService *)

MAX_FILE_SIZE == 5 * 1024 * 1024

\* 1000 in the source.  The cap is checked at a reduced size, so that files
\* longer than the cap stay within reach of the model checker.
MAX_ROWS == 6

EndsWith(s, p) == Len(s) >= Len(p) /\ SubSeq(s, Len(s) - Len(p) + 1, Len(s)) = p

\* variant: the type test written with || , asking for both the MIME type
\* and the extension
validateFile_bothTypes(f) ==
  IF ~f.present THEN [isValid |-> FALSE, error |-> "No file provided"]
  ELSE IF f.size > MAX_FILE_SIZE
    THEN [isValid |-> FALSE, error |-> "File size exceeds maximum allowed size (5MB)"]
  ELSE IF \/ f.mimetype \notin {"text/csv", "application/csv", "text/plain"}
          \/ ~EndsWith(ToLowerCase(f.originalname), <<".","c","s","v">>)
    THEN [isValid |-> FALSE, error |-> "Invalid file type"]
  ELSE IF f.size = 0 THEN [isValid |-> FALSE, error |-> "File is empty"]
  ELSE [isValid |-> TRUE, error |-> ""]

validateFile(f) ==
  IF ~f.present THEN [isValid |-> FALSE, error |-> "No file provided"]
  ELSE IF f.size > MAX_FILE_SIZE
    THEN [isValid |-> FALSE, error |-> "File size exceeds maximum allowed size (5MB)"]
  ELSE IF /\ f.mimetype \notin {"text/csv", "application/csv", "text/plain"}
          /\ ~EndsWith(ToLowerCase(f.originalname), <<".","c","s","v">>)
    THEN [isValid |-> FALSE, error |-> "Invalid file type"]
  ELSE IF f.size = 0 THEN [isValid |-> FALSE, error |-> "File is empty"]
  ELSE [isValid |-> TRUE, error |-> ""]

\* JSON.stringify of an array of strings (the tags hold no quote or backslash)
RECURSIVE JoinQuoted(_)
JoinQuoted(tags) ==
  IF tags = <<>> THEN <<>>
  ELSE <<"\"">> \o Head(tags) \o <<"\"">>
       \o (IF Len(tags) > 1 THEN <<",">> ELSE <<>>) \o JoinQuoted(Tail(tags))

JSONStringify(tags) == <<"[">> \o JoinQuoted(tags) \o <<"]">>

\* { ...cleanedRow, ownerId, tags: JSON.stringify(cleanedRow.tags || []) }
stagedRow(cleaned, ownerId) ==
  [k \in (DOMAIN cleaned) \cup {"ownerId", "tags"} |->
     IF k = "ownerId" THEN Str(ownerId)
     ELSE IF k = "tags"
       THEN Str(JSONStringify(IF Truthy(Get(cleaned, "tags"))
                                THEN Get(cleaned, "tags").a ELSE <<>>))
     ELSE cleaned[k]]

RowError(row, errors, data) == [row |-> row, errors |-> errors, data |-> data]
Warning(row, msg) == [row |-> row, msg |-> msg]

\* variant: the parser's diagnostics put in front, last first
foldParserErrors_reversed(errors, parseErrors) ==
  [k \in 1..Len(parseErrors) |->
     LET e == parseErrors[Len(parseErrors) + 1 - k]
     IN RowError(e.row, <<Msg("parser", "", <<e.message>>)>>, e.rawData)] \o errors

\* lines 116-124: parseResult.errors.forEach(error => result.errors.push(...))
foldParserErrors(errors, parseErrors) ==
  errors \o [k \in 1..Len(parseErrors) |->
               RowError(parseErrors[k].row,
                        <<Msg("parser", "", <<parseErrors[k].message>>)>>,
                        parseErrors[k].rawData)]

\* variant: the slice taken one row too long
limitRows_offByOne(data) ==
  IF Len(data) > MAX_ROWS THEN SubSeq(data, 1, MAX_ROWS + 1) ELSE data

\* line 138: parseResult.data.slice(0, MAX_ROWS) when the limit is exceeded
limitRows(data) ==
  IF Len(data) > MAX_ROWS THEN SubSeq(data, 1, MAX_ROWS) ELSE data

\* variant: the failure recorded, the counts left as the row loop set them
rolledBack_keepingCounts(res) ==
  [res EXCEPT !.errors = Append(@, RowError(0, <<Msg("database", "", <<>>)>>, Undefined))]

\* lines 211-216: the database error, and every row counted as failed
rolledBack(res) ==
  [res EXCEPT
     !.errors = Append(@, RowError(0, <<Msg("database", "", <<>>)>>, Undefined)),
     !.successfulImports = 0,
     !.failedImports = res.totalRows]

\* variant: success taken to mean that no row failed
finished_noFailure(res) == [res EXCEPT !.success = res.failedImports = 0]

\* line 220
finished(res) == [res EXCEPT !.success = res.successfulImports > 0]

\* lines 91-98
NewResult ==
  [success |-> FALSE, totalRows |-> 0, successfulImports |-> 0, failedImports |-> 0,
   errors |-> <<>>, warnings |-> <<>>]

\* lines 100-109: the file check and its early return
ValidateFile ==
  /\ pc = "validateFile"
  /\ LET fileValidation == validateFile(file)
     IN IF ~fileValidation.isValid
          THEN /\ result' = [result EXCEPT !.errors = Append(@,
                     RowError(0, <<Msg("file", "", <<fileValidation.error>>)>>, Undefined))]
               /\ pc' = "returned"
          ELSE /\ pc' = "parse"
               /\ UNCHANGED result
  /\ UNCHANGED <<file, parseData, validRows, idx, buyers, calls, rowLog>>
  /\ UNCHANGED <<rowVars, unitVars, updateVars, debounceVars>>

\* lines 111-133: parse, fold the parser's diagnostics in, return on no data
ParseContent ==
  /\ pc = "parse"
  /\ file.hasBuffer
  /\ LET parseResult == parseCSV(file.lines)
         folded == foldParserErrors(result.errors, parseResult.errors)
     IN /\ parseData' = parseResult.data
        /\ IF parseResult.data = <<>>
             THEN /\ result' = [result EXCEPT !.errors = Append(folded,
                        RowError(0, <<Msg("noData", "", <<>>)>>, Undefined))]
                  /\ pc' = "returned"
             ELSE /\ result' = [result EXCEPT !.errors = folded]
                  /\ pc' = "rowLimit"
  /\ calls' = [calls EXCEPT !.parser = @ + 1]
  /\ UNCHANGED <<file, validRows, idx, buyers, rowLog>>
  /\ UNCHANGED <<rowVars, unitVars, updateVars, debounceVars>>

\* lines 224-230: the outer catch.  file.buffer.toString throws on a file
\* that carries no buffer (multer sets buffer under memoryStorage only).
ImportCatch ==
  /\ pc = "parse"
  /\ ~file.hasBuffer
  /\ result' = [result EXCEPT !.errors = Append(@,
        RowError(0, <<Msg("importFailed", "", <<>>)>>, Undefined))]
  /\ pc' = "returned"
  /\ UNCHANGED <<file, parseData, validRows, idx, buyers, calls, rowLog>>
  /\ UNCHANGED <<rowVars, unitVars, updateVars, debounceVars>>

\* lines 135-141
RowLimit ==
  /\ pc = "rowLimit"
  /\ LET capped == limitRows(parseData)
     IN /\ parseData' = capped
        /\ result' = [result EXCEPT
             !.warnings = IF Len(parseData) > MAX_ROWS
                            THEN Append(@, Warning(0,
                                   Msg("rowLimit", "", <<Len(parseData), MAX_ROWS>>)))
                            ELSE @,
             !.totalRows = Len(capped)]
  /\ pc' = "headers"
  /\ UNCHANGED <<file, validRows, idx, buyers, calls, rowLog>>
  /\ UNCHANGED <<rowVars, unitVars, updateVars, debounceVars>>

\* lines 143-151
RequiredHeaders ==
  /\ pc = "headers"
  /\ LET headerValidation == validateRequiredHeaders(parseData, RequiredFields)
     IN IF ~headerValidation.isValid
          THEN /\ result' = [result EXCEPT !.errors = Append(@,
                     RowError(0, <<Msg("missingHeaders", "",
                                       headerValidation.missingHeaders)>>, Undefined))]
               /\ pc' = "returned"
          ELSE /\ pc' = "rows"
               /\ UNCHANGED result
  /\ idx' = 0
  /\ UNCHANGED <<file, parseData, validRows, buyers, calls, rowLog>>
  /\ UNCHANGED <<rowVars, unitVars, updateVars, debounceVars>>

\* variant: rows counted from 1, the header line not compensated for
rowNumberOf_fromOne(i) == i + 1

\* line 158: const rowNumber = i + 2
rowNumberOf(i) == i + 2

\* lines 156-193: one turn of the row loop that raises nothing.  Each stage's
\* value is bound once (\E over a singleton) and handed to the next stage.
ProcessRow ==
  /\ pc = "rows"
  /\ idx < Len(parseData)
  /\ (idx + 1) \notin file.faults
  /\ \E row \in {parseData[idx + 1]}, rowNumber \in {rowNumberOf(idx)} :
     \E cleanedRow0 \in {cleanRowData(row)} :
     \E enhancedValidation \in {validateRow(cleanedRow0)} :
     \E validation \in {validateCSVRow(enhancedValidation.row)} :
       LET combinedErrors == enhancedValidation.errors \o validation.errors
           warned == result.warnings \o
                       [k \in 1..Len(enhancedValidation.warnings) |->
                          Warning(rowNumber, enhancedValidation.warnings[k])]
       IN IF enhancedValidation.isValid /\ validation.isValid
            THEN /\ validRows' = Append(validRows,
                                        stagedRow(enhancedValidation.row, file.ownerId))
                 /\ result' = [result EXCEPT !.warnings = warned,
                                             !.successfulImports = @ + 1]
                 /\ rowLog' = Append(rowLog, [row |-> rowNumber, outcome |-> "staged"])
            ELSE /\ result' = [result EXCEPT !.warnings = warned,
                                 !.errors = Append(@, RowError(rowNumber, combinedErrors, row)),
                                 !.failedImports = @ + 1]
                 /\ rowLog' = Append(rowLog, [row |-> rowNumber, outcome |-> "failed"])
                 /\ UNCHANGED validRows
  /\ idx' = idx + 1
  /\ calls' = [calls EXCEPT !.clean = @ + 1]
  /\ UNCHANGED <<pc, file, parseData, buyers>>
  /\ UNCHANGED <<rowVars, unitVars, updateVars, debounceVars>>

\* variant: no catch around the row, so that what a row raises reaches the
\* outer catch and ends the import
ProcessRowEscapes ==
  /\ pc = "rows"
  /\ idx < Len(parseData)
  /\ (idx + 1) \in file.faults
  /\ result' = [result EXCEPT !.errors = Append(@,
        RowError(0, <<Msg("importFailed", "", <<>>)>>, Undefined))]
  /\ pc' = "returned"
  /\ UNCHANGED <<file, parseData, validRows, idx, buyers, calls, rowLog>>
  /\ UNCHANGED <<rowVars, unitVars, updateVars, debounceVars>>

\* variant: the row's catch records the error and leaves failedImports alone
ProcessRowCatch_uncounted ==
  /\ pc = "rows"
  /\ idx < Len(parseData)
  /\ (idx + 1) \in file.faults
  /\ result' = [result EXCEPT
       !.errors = Append(@, RowError(rowNumberOf(idx), <<Msg("rowFailed", "", <<>>)>>,
                                     parseData[idx + 1]))]
  /\ rowLog' = Append(rowLog, [row |-> rowNumberOf(idx), outcome |-> "threw"])
  /\ idx' = idx + 1
  /\ UNCHANGED <<pc, file, parseData, validRows, buyers, calls>>
  /\ UNCHANGED <<rowVars, unitVars, updateVars, debounceVars>>

\* lines 194-201: the row's catch.  Which rows raise is an input (file.faults):
\* the catch does not depend on what was raised.
ProcessRowCatch ==
  /\ pc = "rows"
  /\ idx < Len(parseData)
  /\ (idx + 1) \in file.faults
  /\ result' = [result EXCEPT
       !.errors = Append(@, RowError(rowNumberOf(idx), <<Msg("rowFailed", "", <<>>)>>,
                                     parseData[idx + 1])),
       !.failedImports = @ + 1]
  /\ rowLog' = Append(rowLog, [row |-> rowNumberOf(idx), outcome |-> "threw"])
  /\ idx' = idx + 1
  /\ UNCHANGED <<pc, file, parseData, validRows, buyers, calls>>
  /\ UNCHANGED <<rowVars, unitVars, updateVars, debounceVars>>

\* variant: createMany is called whether or not a row was staged
EndOfRows_always ==
  /\ pc = "rows"
  /\ idx = Len(parseData)
  /\ pc' = "createMany"
  /\ UNCHANGED <<file, result, parseData, validRows, idx, buyers, calls, rowLog>>
  /\ UNCHANGED <<rowVars, unitVars, updateVars, debounceVars>>

\* line 156 (the loop ends) and line 205
EndOfRows ==
  /\ pc = "rows"
  /\ idx = Len(parseData)
  /\ pc' = IF Len(validRows) > 0 THEN "createMany" ELSE "finish"
  /\ UNCHANGED <<file, result, parseData, validRows, idx, buyers, calls, rowLog>>
  /\ UNCHANGED <<rowVars, unitVars, updateVars, debounceVars>>

\* lines 206-209: prisma.buyer.createMany stores every staged row
CreateMany ==
  /\ pc = "createMany"
  /\ buyers' = buyers \o validRows
  /\ calls' = [calls EXCEPT !.createMany = @ + 1]
  /\ pc' = "finish"
  /\ UNCHANGED <<file, result, parseData, validRows, idx, rowLog>>
  /\ UNCHANGED <<rowVars, unitVars, updateVars, debounceVars>>

\* lines 210-217: createMany rejects and stores nothing
CreateManyFails ==
  /\ pc = "createMany"
  /\ calls' = [calls EXCEPT !.createMany = @ + 1]
  /\ result' = rolledBack(result)
  /\ pc' = "finish"
  /\ UNCHANGED <<file, parseData, validRows, idx, buyers, rowLog>>
  /\ UNCHANGED <<rowVars, unitVars, updateVars, debounceVars>>

\* lines 220-222
Finish ==
  /\ pc = "finish"
  /\ result' = finished(result)
  /\ pc' = "returned"
  /\ UNCHANGED <<file, parseData, validRows, idx, buyers, calls, rowLog>>
  /\ UNCHANGED <<rowVars, unitVars, updateVars, debounceVars>>

-----------------------------------------------------------------------------
(* The uploads the import is run on *)

\* a file has at most MAX_ROWS + 1 data lines, of which at most MaxOddLines
\* differ from the plain accepted line
MaxOddLines == 2

Header14 == <<"fullName", "email", "phone", "city", "propertyType", "bhk", "purpose",
              "budgetMin", "budgetMax", "timeline", "source", "notes", "tags", "status">>
Header13 == <<"fullName", "email", "phone", "city", "propertyType", "bhk", "purpose",
              "budgetMin", "budgetMax", "timeline", "notes", "tags", "status">>
Header7 == RequiredFields

John == <<"J","o","h","n">>
Mail == <<"a","@","b",".","c","o">>
Phone10 == <<"9","8","7","6","5","4","3","2","1","0">>
Hi == <<"h","i">>
TagsAB == <<"a",","," ","b">>

\* a Plot line that carries a bhk: accepted, with the bhk warning
LineWarned == <<John, Mail, Phone10, Chandigarh, Plot, Two, Buy, <<"1">>, <<"2">>,
                ZeroToThree, Website, Hi, TagsAB, New>>
\* an Apartment line without bhk: rejected
LineInvalid == <<John, Mail, Phone10, Chandigarh, Apartment, <<>>, Buy, <<"1">>, <<"2">>,
                 ZeroToThree, Website, Hi, TagsAB, New>>
\* one column short, one column long, two columns short
LineShort1 == <<John, Mail, Phone10, Mohali, Villa, Two, Rent, <<"1">>, <<"2">>,
                ZeroToThree, Website, Hi, TagsAB>>
LineLong == <<John, Mail, Phone10, Mohali, Villa, Two, Rent, <<"1">>, <<"2">>,
              ZeroToThree, Website, Hi, TagsAB, New, <<"x">>>>
LineShort2 == <<John, Mail, Phone10, Mohali, Villa, Two, Rent, <<"1">>, <<"2">>,
                ZeroToThree, Website, Hi>>
\* a Plot line with every optional column empty
LineEmptyOptionals == <<John, <<>>, Phone10, Chandigarh, Plot, <<>>, Buy, <<>>, <<>>,
                        ZeroToThree, Website, <<>>, <<>>, <<>>>>
\* lines for the seven required columns alone
LineApartment7 == <<John, Phone10, Chandigarh, Apartment, Buy, ZeroToThree, Website>>
LinePlot7 == <<John, Phone10, Chandigarh, Plot, Buy, ZeroToThree, Website>>
LineNoSource == <<John, Mail, Phone10, Chandigarh, Plot, Two, Buy, <<"1">>, <<"2">>,
                  ZeroToThree, Hi, TagsAB, New>>

OddKinds == {"invalid", "raises", "short1"}

LineOfKind(kind) ==
  CASE kind = "invalid" -> LineInvalid
    [] kind = "short1" -> LineShort1
    [] OTHER -> LineWarned

\* the data lines of a file, with the rows that raise while being processed
PatternsOfLength(n) ==
  {<<kinds, n>> :
     kinds \in UNION {[odd -> OddKinds] :
                        odd \in {o \in SUBSET (1..n) : Cardinality(o) <= MaxOddLines}}}

Patterns == UNION {PatternsOfLength(n) : n \in 0..(MAX_ROWS + 1)}

PatternLines(p) ==
  <<Header14>> \o [i \in 1..p[2] |->
                     IF i \in DOMAIN p[1] THEN LineOfKind(p[1][i]) ELSE LineWarned]
PatternFaults(p) == {i \in DOMAIN p[1] : p[1][i] = "raises"}

SpecialContents ==
  {<<>>, <<Header14>>, <<<<"fullName">>, <<John>>>>, <<Header13, LineNoSource>>,
   <<Header7, LineApartment7>>, <<Header7, LinePlot7, LineApartment7>>,
   <<Header14, LineEmptyOptionals>>, <<Header14, LineEmptyOptionals, LineWarned>>,
   <<Header14, LineLong>>, <<Header14, LineWarned, LineShort2>>,
   <<Header14, LineInvalid, LineWarned, LineWarned, LineWarned, LineWarned, LineLong>>,
   <<Header14, LineWarned, LineInvalid, LineWarned, LineWarned, LineWarned, LineShort2>>}

File(size, mimetype, originalname, hasBuffer, lines, faults) ==
  [present |-> TRUE, size |-> size, mimetype |-> mimetype, originalname |-> originalname,
   hasBuffer |-> hasBuffer, lines |-> lines, faults |-> faults, ownerId |-> "user-1"]

NoFile == [File(0, "", <<>>, FALSE, <<>>, {}) EXCEPT !.present = FALSE]

NameCsv == <<"a",".","c","s","v">>
NameCSV == <<"A",".","C","S","V">>
NameTxt == <<"a",".","t","x","t">>

\* an accepted upload of every content, and every kind of upload of one content
Files ==
  {File(1024, "text/csv", NameCsv, TRUE, PatternLines(p), PatternFaults(p)) : p \in Patterns}
  \cup {File(1024, "text/csv", NameCsv, TRUE, c, {}) : c \in SpecialContents}
  \cup {File(sz, mt, nm, hb, IF sz = 0 THEN <<>> ELSE <<Header14, LineWarned>>, {}) :
          sz \in {0, 1024, MAX_FILE_SIZE, MAX_FILE_SIZE + 1},
          mt \in {"text/csv", "application/csv", "text/plain", "application/json"},
          nm \in {NameCsv, NameCSV, NameTxt},
          hb \in BOOLEAN}
  \cup {NoFile}

Init ==
  /\ pc = "validateFile"
  /\ file \in Files
  /\ result = NewResult
  /\ parseData = <<>>
  /\ validRows = <<>>
  /\ idx = 0
  /\ buyers = <<>>
  /\ calls = [parser |-> 0, clean |-> 0, createMany |-> 0]
  /\ rowLog = <<>>
  /\ RowIdle /\ UnitIdle /\ UpdateIdle /\ DebounceIdle

Next ==
  \/ ValidateFile
  \/ ParseContent
  \/ ImportCatch
  \/ RowLimit
  \/ RequiredHeaders
  \/ ProcessRow
  \/ ProcessRowCatch
  \/ EndOfRows
  \/ CreateMany
  \/ CreateManyFails
  \/ Finish

Spec == Init /\ [][Next]_vars

-----------------------------------------------------------------------------
(* One function applied to one argument *)

\* what a call that raised leaves in place of a result
Thrown == [thrown |-> TRUE]

\* tags.join(',') : the comma-separated text of a list of tokens
RECURSIVE JoinComma(_)
JoinComma(tokens) ==
  IF tokens = <<>> THEN <<>>
  ELSE Head(tokens) \o (IF Len(tokens) > 1 THEN <<",">> ELSE <<>>) \o JoinComma(Tail(tokens))

\* the lists of tag tokens: at most MaxTags tokens
MaxTags == 3
TagTokens == {<<"a">>, <<"b">>, <<" ","c"," ">>, <<>>, <<"n","u","l","l">>,
              <<"u","n","d","e","f","i","n","e","d">>, <<"[","]">>}
TagLists == UNION {[1..n -> TagTokens] : n \in 0..MaxTags}

\* the rows cleanRowData is applied to, and to its own result
RowsToClean ==
  {Restrict(r, h) :
     r \in AliasRows \cup BhkRows \cup {BaseRowBad},
     h \in {AllHeaders, RequiredHeaderSet,
            AllHeaders \ {"budgetMin", "budgetMax"}, AllHeaders \ {"tags"}}}

\* lines.join('\n') : the text of a file from the texts of its lines
RECURSIVE JoinLines(_)
JoinLines(lines) ==
  IF lines = <<>> THEN <<>>
  ELSE Head(lines) \o (IF Len(lines) > 1 THEN <<"\n">> ELSE <<>>) \o JoinLines(Tail(lines))

\* the texts parseCSV is applied to: a three-column header and at most
\* MaxTextLines lines after it, at most MaxOddText of them other than a
\* plain three-column line
MaxTextLines == 7
MaxOddText == 2
HeaderText == <<"a", ",", "b", ",", "c">>
OddTextKinds == {"short1", "short2", "long", "blank", "quoted"}
TextLine(kind) ==
  CASE kind = "plain"  -> <<"1", ",", "2", ",", "3">>
    [] kind = "short1" -> <<"1", ",", "2">>
    [] kind = "short2" -> <<"1">>
    [] kind = "long"   -> <<"1", ",", "2", ",", " ", "3", ",", "4">>
    [] kind = "blank"  -> <<" ">>
    [] kind = "quoted" -> <<"\"", "x", ",", "\"", "\"", "y", "\"", ",", "2", ",", "3">>

PatternedTexts ==
  {JoinLines(<<HeaderText>> \o
             [i \in 1..n |-> TextLine(IF i \in DOMAIN odd THEN odd[i] ELSE "plain")]) :
     n \in 0..MaxTextLines,
     odd \in UNION {[S -> OddTextKinds] :
                     S \in {T \in SUBSET (1..MaxTextLines) : Cardinality(T) <= MaxOddText}}}

SpecialTexts ==
  {<<>>,
   <<" ", "\n", " ", "\n">>,
   HeaderText \o <<"\n">>,
   <<"a", "b", "c", "\n", "1", ",", "2", ",", "3">>,
   <<"a", "b", "c", "\n", "1", "2", "3">>,
   <<" ">> \o HeaderText \o <<"\r", "\n">> \o TextLine("plain") \o <<"\r", "\n">>,
   <<"\"", "a", ",", "b", "\"", "\n", "1", "\n", "1", ",", "2">>,
   <<"a", ",", "a", ",", "b", "\n", "1", ",", "2", ",", "3">>,
   <<"a", ",", "b", "\n", "\n", "1", ",", "\n", ",">>}

\* the rows validateCSVRow is called with directly: the validRow of the
\* tests (numeric budgets, tags as JSON text) and its variations
Urgent == <<"u","r","g","e","n","t">>
validRow ==
  [fullName |-> Str(<<"J","o","h","n"," ","D","o","e">>),
   email |-> Str(<<"j","o","h","n","@","e","x","a","m","p","l","e",".","c","o","m">>),
   phone |-> Str(<<"9","8","7","6","5","4","3","2","1","0">>),
   city |-> Str(Chandigarh), propertyType |-> Str(Apartment), bhk |-> Str(Three),
   purpose |-> Str(Buy), budgetMin |-> Num(500000), budgetMax |-> Num(700000),
   timeline |-> Str(ZeroToThree), source |-> Str(Website),
   notes |-> Str(<<"L","o","o","k","i","n","g">>),
   tags |-> Str(JSONStringify(<<Urgent>>)), status |-> Str(New)]

TestRows ==
  {[validRow EXCEPT !.tags = t, !.propertyType = Str(pb[1]), !.bhk = Str(pb[2]),
                    !.budgetMin = b[1], !.budgetMax = b[2], !.email = e] :
     t \in {Str(JSONStringify(<<Urgent>>)), Str(JSONStringify(<<>>)), Str(<<>>),
            Arr(<<Urgent>>)},
     pb \in {<<Apartment, Three>>, <<Villa, Studio>>, <<Apartment, <<>>>>, <<Plot, <<>>>>},
     b \in {<<Num(500000), Num(700000)>>, <<Num(700000), Num(700000)>>,
            <<Num(700000), Num(500000)>>, <<Str(<<>>), Str(<<>>)>>},
     e \in {validRow.email, Str(<<>>), Str(<<"b","a","d">>)}}

\* the values mapEnumValue is applied to: texts of at most MaxPieces pieces,
\* the pieces being alias keys, parts of keys and text of no key
MaxPieces == 2
BhkPieces == {<<"t","w","o">>, <<"3">>, <<"1">>, <<"o">>, <<"b","h","k">>, <<" ">>,
              <<"5">>, <<"F","O","U","R">>, <<"s","t","u","d","i","o">>}
CityPieces == {<<"c","h","d">>, <<"c","h","a","n","d","i">>, <<"p","a","n">>, <<" ">>,
               <<"m","o","h","a","l","i">>, <<"x">>, <<"O","t","h","e","r">>}
TimelinePieces == {<<"0","-","3">>, <<"3","-","6">>, <<"6","+">>, <<"3">>, <<" ">>,
                   <<"a","s","a","p">>, <<"l","a","t","e","r">>}
TextsOf(pieces) ==
  {Flatten(ps) : ps \in UNION {[1..n -> pieces] : n \in 0..MaxPieces}}
EnumTexts ==
  {[field |-> "bhk", value |-> v] : v \in TextsOf(BhkPieces)}
  \cup {[field |-> "city", value |-> v] : v \in TextsOf(CityPieces)}
  \cup {[field |-> "timeline", value |-> v] : v \in TextsOf(TimelinePieces)}

\* the lines parseCSVLine is applied to: every text of at most MaxLineLen
\* characters out of a letter, the blank, the comma and the double quote
MaxLineLen == 5
LineChars == {"a", " ", ",", "\""}
LineTexts == UNION {[1..n -> LineChars] : n \in 0..MaxLineLen}

UnitInputs ==
  {<<"cleanRowData", r>> : r \in RowsToClean}
  \cup {<<"cleanTags", t>> : t \in TagLists}
  \cup {<<"parseCSV", c>> : c \in PatternedTexts \cup SpecialTexts}
  \cup {<<"validateCSVRow", r>> : r \in TestRows}
  \cup {<<"mapEnumValue", fv>> : fv \in EnumTexts}
  \cup {<<"parseCSVLine", l>> : l \in LineTexts}

UnitInit ==
  /\ \E i \in UnitInputs : ufn = i[1] /\ uarg = i[2]
  /\ uout = <<>>
  /\ ImportIdle /\ RowIdle /\ UpdateIdle /\ DebounceIdle

\* cleanRowData(row), and then cleanRowData of what it returned
ApplyCleanRowData ==
  /\ ufn = "cleanRowData"
  /\ Len(uout) < 2
  /\ uout # <<>> => uout[Len(uout)] # Thrown
  /\ LET row == IF uout = <<>> THEN uarg ELSE uout[Len(uout)]
     IN uout' = Append(uout, IF cleanRowDataThrows(row) THEN Thrown ELSE cleanRowData(row))
  /\ UNCHANGED <<ufn, uarg>>
  /\ UNCHANGED <<importVars, rowVars, updateVars, debounceVars>>

\* cleanTags of the comma-separated text and of the JSON text of one list
ApplyCleanTags ==
  /\ ufn = "cleanTags"
  /\ uout = <<>>
  /\ uout' = <<cleanTags(JoinComma(uarg)), cleanTags(JSONStringify(uarg))>>
  /\ UNCHANGED <<ufn, uarg>>
  /\ UNCHANGED <<importVars, rowVars, updateVars, debounceVars>>

\* CSVParser.parseCSV(content)
ApplyParseCSV ==
  /\ ufn = "parseCSV"
  /\ uout = <<>>
  /\ uout' = <<parseCSV_content(uarg)>>
  /\ UNCHANGED <<ufn, uarg>>
  /\ UNCHANGED <<importVars, rowVars, updateVars, debounceVars>>

\* validateCSVRow(row), called with a row as the tests and
\* BuyerService.importBuyersFromCSV hand it over
ApplyValidateCSVRow ==
  /\ ufn = "validateCSVRow"
  /\ uout = <<>>
  /\ uout' = <<validateCSVRow(uarg)>>
  /\ UNCHANGED <<ufn, uarg>>
  /\ UNCHANGED <<importVars, rowVars, updateVars, debounceVars>>

\* CSVDataCleaner.mapEnumValue(field, value)
ApplyMapEnumValue ==
  /\ ufn = "mapEnumValue"
  /\ uout = <<>>
  /\ uout' = <<mapEnumValue(uarg.field, uarg.value)>>
  /\ UNCHANGED <<ufn, uarg>>
  /\ UNCHANGED <<importVars, rowVars, updateVars, debounceVars>>

\* CSVParser.parseCSVLine(line)
ApplyParseCSVLine ==
  /\ ufn = "parseCSVLine"
  /\ uout = <<>>
  /\ uout' = <<parseCSVLine(uarg)>>
  /\ UNCHANGED <<ufn, uarg>>
  /\ UNCHANGED <<importVars, rowVars, updateVars, debounceVars>>

UnitNext ==
  \/ ApplyCleanRowData
  \/ ApplyCleanTags
  \/ ApplyParseCSV
  \/ ApplyValidateCSVRow
  \/ ApplyMapEnumValue
  \/ ApplyParseCSVLine

UnitSpec == UnitInit /\ [][UnitNext]_vars

-----------------------------------------------------------------------------
(* The buyers routes and BuyerService, several requests at once *)

\* the requests in flight, and the last instant of the clock
NumRequests == 2
MaxClock == 2
Requests == 1..NumRequests

NoRequest == [op |-> "", id |-> "", userId |-> "", userRole |-> "", updatedAt |-> 0,
              fullName |-> 0, valid |-> FALSE]
NoBuyer == [ownerId |-> "", updatedAt |-> 0, fullName |-> 0, found |-> FALSE]
\* data: the ids of the buyers whose data the response carries
NoResponse == [status |-> 0, code |-> "", data |-> {}]

Request(op, id, userId, userRole, updatedAt, p) ==
  [op |-> op, id |-> id, userId |-> userId, userRole |-> userRole,
   updatedAt |-> updatedAt, fullName |-> p, valid |-> TRUE]

\* the id the database gives the buyer that request p stores
NewId(p) == <<"c1", "c2", "c3", "c4">>[p]

\* the bodies and callers of request p; a body that the schema turns down
\* stands for all of them
RequestSamples(p) ==
  {Request("update", "b1", u[1], u[2], t, p) :
     u \in {<<"u1", "user">>, <<"u2", "admin">>}, t \in 0..MaxClock}
  \cup {Request("update", "b1", "u2", "user", 0, p),
        Request("update", "b9", "u1", "user", 0, p),
        [Request("update", "b1", "u1", "user", 0, p) EXCEPT !.valid = FALSE]}
  \cup {Request(op, "b1", u[1], u[2], 0, p) :
          op \in {"get", "delete"},
          u \in {<<"u1", "user">>, <<"u2", "user">>, <<"u2", "admin">>}}
  \cup {Request(op, "b9", "u1", "user", 0, p) : op \in {"get", "delete"}}
  \cup {Request(op, "", u[1], u[2], 0, p) :
          op \in {"list", "export"}, u \in {<<"u1", "user">>, <<"u2", "admin">>}}
  \cup {Request("history", "b1", u, "user", 0, p) : u \in {"u1", "u2"}}
  \cup {Request("create", "", "u1", "user", 0, p),
        [Request("create", "", "u1", "user", 0, p) EXCEPT !.valid = FALSE],
        Request("import", "", "u1", "user", 0, p)}

\* two stored buyers of two owners, each with the history entry of its creation
UpdateInit ==
  /\ now = 0
  /\ buyerTable = [b \in {"b1", "b2"} |->
                     [ownerId |-> IF b = "b1" THEN "u1" ELSE "u2",
                      updatedAt |-> 0, fullName |-> 0, found |-> TRUE]]
  /\ history = <<[buyerId |-> "b1", changedBy |-> "u1", diff |-> <<"created">>],
                 [buyerId |-> "b2", changedBy |-> "u2", diff |-> <<"created">>]>>
  /\ req = [p \in Requests |-> NoRequest]
  /\ upc = [p \in Requests |-> "idle"]
  /\ currentBuyer = [p \in Requests |-> NoBuyer]
  /\ resp = [p \in Requests |-> NoResponse]
  /\ ImportIdle /\ RowIdle /\ UnitIdle /\ DebounceIdle

\* the route's answer to an error
Fail(p, status, code) ==
  /\ resp' = [resp EXCEPT ![p] = [status |-> status, code |-> code, data |-> {}]]
  /\ upc' = [upc EXCEPT ![p] = "done"]

\* the route's answer with data
Answer(p, status, data) ==
  /\ resp' = [resp EXCEPT ![p] = [status |-> status, code |-> "", data |-> data]]
  /\ upc' = [upc EXCEPT ![p] = "done"]

\* where the handler of an operation starts
FirstStep(op) ==
  CASE op \in {"update", "delete"} -> "findUnique"
    [] op = "import" -> "createMany"
    [] OTHER -> op

\* the request arrives: the body is parsed where the route has a schema for
\* it, then the service is called
Put(p) ==
  /\ upc[p] = "idle"
  /\ \E r \in RequestSamples(p) :
       /\ req' = [req EXCEPT ![p] = r]
       /\ IF ~r.valid
            THEN Fail(p, 400, "Validation failed")
            ELSE upc' = [upc EXCEPT ![p] = FirstStep(r.op)] /\ UNCHANGED resp
  /\ UNCHANGED <<now, buyerTable, history, currentBuyer>>
  /\ UNCHANGED <<importVars, rowVars, unitVars, debounceVars>>

\* prisma.buyer.findUnique({ where: { id } })
findUnique(id) == IF id \in DOMAIN buyerTable THEN buyerTable[id] ELSE NoBuyer

\* the ownership condition of getBuyer, updateBuyer and deleteBuyer
Denied(r, buyer) == r.userRole # "admin" /\ buyer.ownerId # r.userId

\* await prisma.buyer.findUnique, in updateBuyer and in deleteBuyer
FindUnique(p) ==
  /\ upc[p] = "findUnique"
  /\ currentBuyer' = [currentBuyer EXCEPT ![p] = findUnique(req[p].id)]
  /\ upc' = [upc EXCEPT ![p] = "check"]
  /\ UNCHANGED <<now, buyerTable, history, req, resp>>
  /\ UNCHANGED <<importVars, rowVars, unitVars, debounceVars>>

\* the checks on what findUnique returned, up to the call that writes
Check(p) ==
  /\ upc[p] = "check"
  /\ IF ~currentBuyer[p].found
       THEN Fail(p, 404, "Buyer not found")
     ELSE IF Denied(req[p], currentBuyer[p])
       THEN Fail(p, 403, "Access denied")
     ELSE IF req[p].op = "update" /\ currentBuyer[p].updatedAt # req[p].updatedAt
       THEN Fail(p, 409, "STALE_DATA")
     ELSE /\ upc' = [upc EXCEPT ![p] = IF req[p].op = "update" THEN "transaction"
                                                              ELSE "delete"]
          /\ UNCHANGED resp
  /\ UNCHANGED <<now, buyerTable, history, req, currentBuyer>>
  /\ UNCHANGED <<importVars, rowVars, unitVars, debounceVars>>

\* the diff of the history entry: the fields whose value differs from the
\* one findUnique returned
diffOf(old, new) == IF old.fullName # new.fullName THEN <<old.fullName, new.fullName>> ELSE <<>>

\* prisma.$transaction([buyer.update({ where: { id } }), buyerHistory.create]);
\* the row's updatedAt column takes the time of the update.  The update
\* rejects when the row is gone, and the route answers 500.
Transaction(p) ==
  /\ upc[p] = "transaction"
  /\ IF req[p].id \notin DOMAIN buyerTable
       THEN Fail(p, 500, "Internal server error") /\ UNCHANGED <<buyerTable, history>>
       ELSE /\ buyerTable' = [buyerTable EXCEPT ![req[p].id] =
                 [@ EXCEPT !.fullName = req[p].fullName, !.updatedAt = now]]
            /\ history' = Append(history,
                 [buyerId |-> req[p].id, changedBy |-> req[p].userId,
                  diff |-> diffOf(currentBuyer[p], req[p])])
            /\ Answer(p, 200, {req[p].id})
  /\ UNCHANGED <<now, req, currentBuyer>>
  /\ UNCHANGED <<importVars, rowVars, unitVars, debounceVars>>

\* prisma.buyer.delete({ where: { id } }); the history rows go with the buyer
\* (ON DELETE CASCADE)
Delete(p) ==
  /\ upc[p] = "delete"
  /\ IF req[p].id \notin DOMAIN buyerTable
       THEN Fail(p, 500, "Internal server error") /\ UNCHANGED <<buyerTable, history>>
       ELSE /\ buyerTable' = [b \in DOMAIN buyerTable \ {req[p].id} |-> buyerTable[b]]
            /\ history' = SelectSeq(history, LAMBDA h : h.buyerId # req[p].id)
            /\ Answer(p, 204, {})
  /\ UNCHANGED <<now, req, currentBuyer>>
  /\ UNCHANGED <<importVars, rowVars, unitVars, debounceVars>>

\* GET /buyers/:id and getBuyer
GetBuyer(p) ==
  /\ upc[p] = "get"
  /\ LET buyer == findUnique(req[p].id)
     IN IF ~buyer.found THEN Fail(p, 404, "Buyer not found")
        ELSE IF Denied(req[p], buyer) THEN Fail(p, 403, "Access denied")
        ELSE Answer(p, 200, {req[p].id})
  /\ UNCHANGED <<now, buyerTable, history, req, currentBuyer>>
  /\ UNCHANGED <<importVars, rowVars, unitVars, debounceVars>>

\* the where clause of listBuyers and exportBuyersToCSV, without the filters
\* of the query: ...(userRole !== 'admin' && { ownerId: userId })
findMany(r) ==
  {b \in DOMAIN buyerTable : r.userRole = "admin" \/ buyerTable[b].ownerId = r.userId}

\* GET /buyers and listBuyers
ListBuyers(p) ==
  /\ upc[p] = "list"
  /\ Answer(p, 200, findMany(req[p]))
  /\ UNCHANGED <<now, buyerTable, history, req, currentBuyer>>
  /\ UNCHANGED <<importVars, rowVars, unitVars, debounceVars>>

\* exportBuyersToCSV
ExportBuyers(p) ==
  /\ upc[p] = "export"
  /\ Answer(p, 200, findMany(req[p]))
  /\ UNCHANGED <<now, buyerTable, history, req, currentBuyer>>
  /\ UNCHANGED <<importVars, rowVars, unitVars, debounceVars>>

\* GET /buyers/:id/history and getBuyerHistory(buyerId, limit): the entries
\* of the buyer, each with its diff and the buyer's id and fullName
GetBuyerHistory(p) ==
  /\ upc[p] = "history"
  /\ Answer(p, 200, {history[k].buyerId :
                       k \in {j \in 1..Len(history) : history[j].buyerId = req[p].id}})
  /\ UNCHANGED <<now, buyerTable, history, req, currentBuyer>>
  /\ UNCHANGED <<importVars, rowVars, unitVars, debounceVars>>

\* createBuyer, first await: prisma.buyer.create
CreateBuyer(p) ==
  /\ upc[p] = "create"
  /\ buyerTable' = [b \in DOMAIN buyerTable \cup {NewId(p)} |->
        IF b = NewId(p)
          THEN [ownerId |-> req[p].userId, updatedAt |-> now,
                fullName |-> req[p].fullName, found |-> TRUE]
          ELSE buyerTable[b]]
  /\ upc' = [upc EXCEPT ![p] = "createHistory"]
  /\ UNCHANGED <<now, history, req, currentBuyer, resp>>
  /\ UNCHANGED <<importVars, rowVars, unitVars, debounceVars>>

\* createBuyer, second await: prisma.buyerHistory.create, which the foreign
\* key rejects when the buyer is gone
CreateHistory(p) ==
  /\ upc[p] = "createHistory"
  /\ IF NewId(p) \notin DOMAIN buyerTable
       THEN Fail(p, 500, "Internal server error") /\ UNCHANGED history
       ELSE /\ history' = Append(history, [buyerId |-> NewId(p),
                                           changedBy |-> req[p].userId,
                                           diff |-> <<"created">>])
            /\ Answer(p, 201, {NewId(p)})
  /\ UNCHANGED <<now, buyerTable, req, currentBuyer>>
  /\ UNCHANGED <<importVars, rowVars, unitVars, debounceVars>>

\* POST /buyers/import-csv with a file of one valid row: what
\* CSVImportService.importBuyersFromCSV stores, prisma.buyer.createMany
StoreImported(p) ==
  /\ upc[p] = "createMany"
  /\ buyerTable' = [b \in DOMAIN buyerTable \cup {NewId(p)} |->
        IF b = NewId(p)
          THEN [ownerId |-> req[p].userId, updatedAt |-> now,
                fullName |-> req[p].fullName, found |-> TRUE]
          ELSE buyerTable[b]]
  /\ Answer(p, 200, {})
  /\ UNCHANGED <<now, history, req, currentBuyer>>
  /\ UNCHANGED <<importVars, rowVars, unitVars, debounceVars>>

\* time passes
Tick ==
  /\ upc # <<>>
  /\ now < MaxClock
  /\ now' = now + 1
  /\ UNCHANGED <<buyerTable, history, req, upc, currentBuyer, resp>>
  /\ UNCHANGED <<importVars, rowVars, unitVars, debounceVars>>

UpdateNext ==
  \/ \E p \in Requests : Put(p)
  \/ \E p \in Requests : FindUnique(p)
  \/ \E p \in Requests : Check(p)
  \/ \E p \in Requests : Transaction(p)
  \/ \E p \in Requests : Delete(p)
  \/ \E p \in Requests : GetBuyer(p)
  \/ \E p \in Requests : ListBuyers(p)
  \/ \E p \in Requests : ExportBuyers(p)
  \/ \E p \in Requests : GetBuyerHistory(p)
  \/ \E p \in Requests : CreateBuyer(p)
  \/ \E p \in Requests : CreateHistory(p)
  \/ \E p \in Requests : StoreImported(p)
  \/ Tick

UpdateSpec == UpdateInit /\ [][UpdateNext]_vars

-----------------------------------------------------------------------------
(* debounce(func, wait) of the frontend's utils, and the timers it sets *)

\* the longest delay, the last instant of the clock, the number of calls
MaxWait == 2
MaxTime == 5
MaxCalls == 3
Args == {"x", "y"}

\* let timeout = null; the returned function is handed out
DebounceInit ==
  /\ clock = 0
  /\ wait \in 1..MaxWait
  /\ timeout = 0
  /\ timers = {}
  /\ callLog = <<>>
  /\ invocations = <<>>
  /\ ImportIdle /\ RowIdle /\ UnitIdle /\ UpdateIdle

\* variant: the earlier timer left to run
clearTimeout_kept(set, handle) == set

\* clearTimeout(handle): the timer, if it is still set, is taken away
clearTimeout(set, handle) == {t \in set : t.id # handle}

\* setTimeout(() => func(...args), wait); the handle of the k-th call's timer is k
setTimeout(set, handle, args, delay) ==
  set \cup {[id |-> handle, due |-> clock + delay, args |-> args]}

\* a call of the debounced function:
\* if (timeout) clearTimeout(timeout); timeout = setTimeout(...)
CallDebounced ==
  /\ wait > 0
  /\ Len(callLog) < MaxCalls
  /\ clock + wait <= MaxTime
  /\ \E args \in Args :
       /\ timers' = setTimeout(IF timeout # 0 THEN clearTimeout(timers, timeout) ELSE timers,
                               Len(callLog) + 1, args, wait)
       /\ callLog' = Append(callLog, [at |-> clock, args |-> args])
  /\ timeout' = Len(callLog) + 1
  /\ UNCHANGED <<clock, wait, invocations>>
  /\ UNCHANGED <<importVars, rowVars, unitVars, updateVars>>

\* the runtime runs the callback of a timer whose delay has gone by, at that
\* moment or later: () => func(...args)
TimerFires ==
  /\ \E t \in timers :
       /\ clock >= t.due
       /\ invocations' = Append(invocations, [at |-> clock, args |-> t.args, id |-> t.id])
       /\ timers' = timers \ {t}
  /\ UNCHANGED <<clock, wait, timeout, callLog>>
  /\ UNCHANGED <<importVars, rowVars, unitVars, updateVars>>

\* a millisecond goes by
AdvanceClock ==
  /\ wait > 0
  /\ clock < MaxTime
  /\ clock' = clock + 1
  /\ UNCHANGED <<wait, timeout, timers, callLog, invocations>>
  /\ UNCHANGED <<importVars, rowVars, unitVars, updateVars>>

DebounceNext == CallDebounced \/ TimerFires \/ AdvanceClock

\* time goes on, and a timer that is due is run in the end
DebounceSpec ==
  DebounceInit /\ [][DebounceNext]_vars /\ WF_vars(TimerFires) /\ WF_vars(AdvanceClock)

-----------------------------------------------------------------------------
(* Properties *)

Range(seq) == {seq[k] : k \in 1..Len(seq)}
Kinds(msgs) == {msgs[k].kind : k \in 1..Len(msgs)}

\* the import has gone past the header check into the row loop
InLoopOrAfter ==
  /\ pc \in {"rows", "createMany", "finish", "returned"}
  /\ parseData # <<>>
  /\ \A h \in RequiredHeaderSet : h \in DOMAIN parseData[1]

\* the row loop has run to its end
LoopDone == InLoopOrAfter /\ pc # "rows"

\* createMany was called and stored nothing
StorageFailed == calls.createMany > 0 /\ buyers = <<>>

ErrorsOfKind(kind) == {k \in 1..Len(result.errors) : kind \in Kinds(result.errors[k].errors)}

\* a parsed row whose required fields are all valid and whose optional
\* columns are there and empty (bhk empty on a Plot, Office or Retail row)
EmptyOptionalsRow(row) ==
  /\ AllHeaders \subseteq DOMAIN row
  /\ \A f \in {"email", "notes", "status", "budgetMin", "budgetMax", "bhk"} : row[f] = Str(<<>>)
  /\ Len(row["fullName"].s) \in NAME_MIN..NAME_MAX
  /\ Len(cleanPhoneNumber(row["phone"].s)) \in PHONE_MIN..PHONE_MAX
  /\ \A f \in {"city", "purpose", "timeline", "source"} : row[f].s \in ValidValues(f)
  /\ row["propertyType"].s \in {Plot, Office, Retail}

(* C1: a data row whose required fields are valid and whose optional columns
   are present but empty is staged and counted as a successful import. *)
C1_EmptyOptionalsImported ==
  \A k \in 1..Len(rowLog) :
    EmptyOptionalsRow(parseData[k]) /\ k \notin file.faults
      => rowLog[k].outcome = "staged"

(* C2: when createMany fails after rows were staged, the result has
   successfulImports = 0, failedImports = totalRows, success = false and
   exactly one row-0 database error, added last. *)
C2_StorageFailureRollsBack ==
  (pc = "returned" /\ StorageFailed) =>
    /\ result.successfulImports = 0
    /\ result.failedImports = result.totalRows
    /\ result.success = FALSE
    /\ ErrorsOfKind("database") = {Len(result.errors)}
    /\ result.errors[Len(result.errors)].row = 0
    /\ Len(result.errors) = 1 + Cardinality(ErrorsOfKind("parser"))
                              + Cardinality({k \in 1..Len(rowLog) : rowLog[k].outcome # "staged"})

C2_Witness ==
  /\ pc = "returned" /\ StorageFailed
  /\ Len(validRows) >= 2
  /\ \E k \in 1..Len(rowLog) : rowLog[k].outcome = "failed"

\* a step of the import can be taken: the guards of ParseContent and of
\* ProcessRow, whose results are defined for every file and row, and the
\* enabling of every other action
CanStep ==
  \/ ENABLED (ValidateFile \/ ImportCatch \/ RowLimit \/ RequiredHeaders)
  \/ pc = "parse" /\ file.hasBuffer
  \/ pc = "rows" /\ idx < Len(parseData) /\ (idx + 1) \notin file.faults
  \/ ENABLED (ProcessRowCatch \/ EndOfRows \/ CreateMany \/ CreateManyFails \/ Finish)

(* C3: the import never ends in an exception: every path ends returned with
   the six fields of an ImportResult, and a row that raises fails that row
   alone, the rows after it being processed as usual. *)
C3_NeverThrows ==
  /\ pc \in {"validateFile", "parse", "rowLimit", "headers", "rows", "createMany",
             "finish", "returned"}
  /\ pc # "returned" => CanStep
  /\ DOMAIN result = {"success", "totalRows", "successfulImports", "failedImports",
                      "errors", "warnings"}
  /\ LoopDone => Len(rowLog) = Len(parseData)
  /\ InLoopOrAfter =>
       \A k \in 1..Len(rowLog) :
         /\ rowLog[k].row = k + 1
         /\ (rowLog[k].outcome = "threw") = (k \in file.faults)
         /\ k \in file.faults =>
              Cardinality({e \in ErrorsOfKind("rowFailed") : result.errors[e].row = k + 1}) = 1

C3_Witness ==
  /\ pc = "returned"
  /\ \E k \in 1..Len(rowLog) :
       /\ rowLog[k].outcome = "threw"
       /\ \E m \in (k + 1)..Len(rowLog) : rowLog[m].outcome = "staged"

(* C4: in every returned result, success is true exactly when
   successfulImports > 0. *)
C4_SuccessIffImported ==
  pc = "returned" => (result.success <=> result.successfulImports > 0)

C4_Witness ==
  /\ pc = "returned"
  /\ result.success
  /\ result.failedImports > 0

\* the required headers the file's header line lacks, in the required order
MissingInFile ==
  SelectSeq(RequiredFields, LAMBDA h : h \notin Range(file.lines[1]))

HeaderCheckDone ==
  /\ pc \in {"rows", "createMany", "finish", "returned"}
  /\ parseData # <<>>

(* C5: when a required header is missing from the parsed rows the import
   stops at the header check: one row-0 error names exactly the missing
   headers, no row is cleaned, storage is not called, and the counts and
   success stay 0 and false. *)
C5_MissingHeadersShortCircuit ==
  (HeaderCheckDone /\ MissingInFile # <<>>) =>
    /\ pc = "returned"
    /\ Cardinality(ErrorsOfKind("missingHeaders")) = 1
    /\ \A k \in ErrorsOfKind("missingHeaders") :
         /\ result.errors[k].row = 0
         /\ result.errors[k].errors = <<Msg("missingHeaders", "", MissingInFile)>>
    /\ calls.clean = 0 /\ rowLog = <<>> /\ validRows = <<>>
    /\ calls.createMany = 0 /\ buyers = <<>>
    /\ result.successfulImports = 0
    /\ result.failedImports = 0
    /\ result.success = FALSE

C5_Witness ==
  /\ pc = "returned"
  /\ HeaderCheckDone
  /\ MissingInFile = <<"source">>
  /\ ErrorsOfKind("missingHeaders") # {}

\* what the file check is to reject
TooLarge == file.size > MAX_FILE_SIZE
NoContent == file.size = 0
NotCsv ==
  /\ file.mimetype \notin {"text/csv", "application/csv", "text/plain"}
  /\ ~EndsWith(ToLowerCase(file.originalname), <<".","c","s","v">>)

(* C6: a file that is too large, empty, or of neither a CSV MIME type nor a
   .csv name is rejected by the file check with exactly one error, of row 0,
   zero counts, and neither the parser nor storage called; every other file
   goes on to parsing. *)
C6_FileCheck ==
  (pc # "validateFile" /\ file.present) =>
    IF TooLarge \/ NoContent \/ NotCsv
      THEN /\ pc = "returned"
           /\ Len(result.errors) = 1
           /\ result.errors[1].row = 0
           /\ Kinds(result.errors[1].errors) = {"file"}
           /\ result.totalRows = 0
           /\ result.successfulImports = 0
           /\ result.failedImports = 0
           /\ calls.parser = 0 /\ calls.createMany = 0
      ELSE /\ ErrorsOfKind("file") = {}
           /\ pc = "parse" \/ calls.parser = 1 \/ ~file.hasBuffer

C6_Witness ==
  /\ pc = "returned"
  /\ file.present /\ ~TooLarge /\ ~NoContent /\ NotCsv
  /\ Len(result.errors) = 1

\* the number of data lines of the file: when the parser gives rows at all it
\* gives one for each data line
ParsedRows == Len(file.lines) - 1

RowLimitDone ==
  /\ pc \in {"headers", "rows", "createMany", "finish", "returned"}
  /\ parseData # <<>>

LimitWarnings == {k \in 1..Len(result.warnings) : result.warnings[k].msg.kind = "rowLimit"}

(* C7: totalRows is min(n, MAX_ROWS) for a file of n data rows; no row after
   the MAX_ROWS-th is cleaned, validated or staged; exactly one warning, naming
   the limit and n, is given when n > MAX_ROWS and none otherwise. *)
C7_RowLimit ==
  /\ pc = "rowLimit" => Len(parseData) = ParsedRows
  /\ RowLimitDone =>
    /\ result.totalRows = Min(ParsedRows, MAX_ROWS)
    /\ Len(parseData) = result.totalRows
    /\ calls.clean <= MAX_ROWS /\ Len(rowLog) <= MAX_ROWS /\ Len(validRows) <= MAX_ROWS
    /\ \A k \in 1..Len(rowLog) : rowLog[k].row <= MAX_ROWS + 1
    /\ \A k \in 1..Len(result.errors) :
         "parser" \notin Kinds(result.errors[k].errors) => result.errors[k].row <= MAX_ROWS + 1
    /\ Cardinality(LimitWarnings) = IF ParsedRows > MAX_ROWS THEN 1 ELSE 0
    /\ \A k \in LimitWarnings :
         result.warnings[k].msg.detail = <<ParsedRows, MAX_ROWS>>

C7_Witness ==
  /\ pc = "returned"
  /\ ParsedRows > MAX_ROWS
  /\ result.totalRows = MAX_ROWS
  /\ Len(rowLog) = MAX_ROWS
  /\ Cardinality(LimitWarnings) = 1

\* the positions in result.errors of the entries that refer to data rows
DataRowErrors == {k \in 1..Len(result.errors) : result.errors[k].row >= 2}
ParserErrors == ErrorsOfKind("parser")
RowWarnings == {k \in 1..Len(result.warnings) : result.warnings[k].row >= 2}
StagedLog == SelectSeq(rowLog, LAMBDA l : l.outcome = "staged")

(* C8, as stated: of any two entries of errors that refer to data rows, the
   one with the smaller row number comes first. *)
C8_ErrorsInRowOrder ==
  \A i, j \in DataRowErrors :
    i < j => result.errors[i].row <= result.errors[j].row

(* C8, amended: the parser's diagnostics come first, in increasing row order;
   the row loop's errors follow, in increasing row order; row-prefixed
   warnings are in non-decreasing row order; the staged rows are in file
   order, and storage receives them in that order. *)
C8_OrderWithinEachPass ==
  /\ \A i \in ParserErrors, j \in DataRowErrors \ ParserErrors : i < j
  /\ \A i, j \in ParserErrors :
       i < j => result.errors[i].row < result.errors[j].row
  /\ \A i, j \in DataRowErrors \ ParserErrors :
       i < j => result.errors[i].row < result.errors[j].row
  /\ \A i, j \in RowWarnings :
       i < j => result.warnings[i].row <= result.warnings[j].row
  /\ Len(validRows) = Len(StagedLog)
  /\ pc = "returned" => \A k \in 1..Len(validRows) :
       validRows[k] = stagedRow(validateRow(cleanRowData(parseData[StagedLog[k].row - 1])).row,
                                file.ownerId)
  /\ \A i, j \in 1..Len(StagedLog) : i < j => StagedLog[i].row < StagedLog[j].row
  /\ buyers \in {<<>>, validRows}

C8_Witness ==
  /\ pc = "returned"
  /\ \E i \in ParserErrors, j \in DataRowErrors \ ParserErrors :
       result.errors[j].row < result.errors[i].row
  /\ Cardinality(DataRowErrors \ ParserErrors) >= 2
  /\ Cardinality(RowWarnings) >= 2
  /\ Len(buyers) >= 2

-----------------------------------------------------------------------------
(* Properties of the single-row pipeline *)

BudgetMin == Get(cleanedRow, "budgetMin")
BudgetMax == Get(cleanedRow, "budgetMax")
IsBudget(v) == IsInteger(v) /\ v.n >= 0

BudgetErrorReported == "budgetOrder" \in Kinds(enhanced.errors)
RowAccepted == enhanced.isValid /\ zodRes.isValid

(* C9: with budgetMin and budgetMax both present as integers >= 0 (0
   included) the row gets a budget error, and validateBudget is false,
   exactly when budgetMax < budgetMin; with at most one of them present no
   budget error is given; no accepted row has budgetMax < budgetMin. *)
C9_BudgetRule ==
  rpc = "checked" =>
    /\ (IsBudget(BudgetMin) /\ IsBudget(BudgetMax)) =>
         /\ BudgetErrorReported <=> Less(BudgetMax, BudgetMin)
         /\ ~validateBudget(BudgetMin, BudgetMax) <=> Less(BudgetMax, BudgetMin)
         /\ RowAccepted => ~Less(BudgetMax, BudgetMin)
    /\ (BudgetMin.t = "undefined" \/ BudgetMax.t = "undefined") => ~BudgetErrorReported

\* the row validateRow is handed
Cleaned == cleanRowData(rawRow)

\* the premises of C10 as stated
ValidAsStated(row) ==
  /\ \A i \in 1..Len(RequiredFields) :
       Get(row, RequiredFields[i]).t = "string" /\ Get(row, RequiredFields[i]).s # <<>>
  /\ \A i \in 1..Len(EnumFields) :
       LET v == Get(row, EnumFields[i])
       IN v.t \in {"undefined", "null"} \/ (v.t = "string" /\ v.s \in ValidValues(EnumFields[i]))
  /\ Len(SelectSeq(Get(row, "phone").s, IsDigit)) \in PHONE_MIN..PHONE_MAX
  /\ LET lo == Get(row, "budgetMin")
         hi == Get(row, "budgetMax")
     IN (lo.t = "number" /\ hi.t = "number") => AtLeast(hi, lo)
  /\ IF Get(row, "propertyType").s \in {Apartment, Villa}
       THEN Get(row, "bhk").t = "string"
       ELSE Get(row, "bhk").t \in {"undefined", "null"}

\* what C10 leaves out: the limits on fullName, email and notes
WithinLimits(row) ==
  /\ Len(Get(row, "fullName").s) \in NAME_MIN..NAME_MAX
  /\ Get(row, "email").t = "string" => emailRegex(Get(row, "email").s)
  /\ Get(row, "notes").t = "string" => Len(Get(row, "notes").s) <= NOTES_MAX

(* C10, as stated: validateRow answers isValid with no errors for every row
   whose required fields are present, whose enum fields are canonical, whose
   phone has 10-15 digits, whose budgets are in order and whose bhk fits its
   propertyType. *)
C10_ValidRowsPass ==
  (rpc \in {"validated", "checked"} /\ ValidAsStated(Cleaned)) =>
    enhanced.isValid /\ enhanced.errors = <<>>

(* C10, amended: the same, for rows whose fullName has 2 to 80 characters,
   whose email, if any, has the local@domain.tld shape and whose notes have at
   most 1000 characters. *)
C10_ValidRowsWithinLimitsPass ==
  (rpc \in {"validated", "checked"} /\ ValidAsStated(Cleaned) /\ WithinLimits(Cleaned)) =>
    enhanced.isValid /\ enhanced.errors = <<>>

C10_Witness ==
  /\ rpc = "validated"
  /\ ValidAsStated(Cleaned) /\ WithinLimits(Cleaned)
  /\ Get(Cleaned, "budgetMin").t = "number"
  /\ Get(Cleaned, "budgetMax") = Get(Cleaned, "budgetMin")
  /\ Get(Cleaned, "email").t = "string"
  /\ enhanced.isValid

-----------------------------------------------------------------------------
(* Properties of validateRow *)

\* validateRow has answered; cleanedRow is the row it was given, but for the
\* bhk it may have set to null
Validated == rpc \in {"validated", "checked"}

MissingRequired ==
  {f \in RequiredHeaderSet :
     LET v == Get(cleanedRow, f)
     IN v.t \in {"undefined", "null"} \/ (v.t = "string" /\ Trim(v.s) = <<>>)}

ErrorKinds(field) ==
  {enhanced.errors[k].kind : k \in {j \in 1..Len(enhanced.errors) :
                                      enhanced.errors[j].field = field}}

NonEmptyString(v) == v.t = "string" /\ v.s # <<>>

(* C11: validateRow answers isValid = false and names every required field
   that is missing or empty after cleaning, whatever subset of them is; the
   other checks (phone length, enum, bhk, budget, notes, fullName length) are
   made on the same row and their errors are in the same result. *)
C11_RequiredFieldsAllNamed ==
  Validated =>
    /\ MissingRequired # {} => ~enhanced.isValid
    /\ \A f \in RequiredHeaderSet : (f \in MissingRequired) <=> ("required" \in ErrorKinds(f))
    /\ Cardinality({k \in 1..Len(enhanced.errors) : enhanced.errors[k].kind = "required"})
         = Cardinality(MissingRequired)
    /\ LET phone == Get(cleanedRow, "phone")
       IN (NonEmptyString(phone)
           /\ Len(SelectSeq(phone.s, IsDigit)) \notin PHONE_MIN..PHONE_MAX
           /\ Len(SelectSeq(phone.s, IsDigit)) # 12)
            => "phoneDigits" \in ErrorKinds("phone")
    /\ \A f \in {"city", "purpose", "timeline", "source", "status"} :
         LET v == Get(cleanedRow, f)
         IN (NonEmptyString(v) /\ v.s \notin ValidValues(f)
             /\ mapEnumValue(f, v.s) = Null) => "enum" \in ErrorKinds(f)
    /\ (Get(cleanedRow, "propertyType").s \in {Apartment, Villa}
        /\ ~NonEmptyString(Get(cleanedRow, "bhk"))) => "bhkRequired" \in ErrorKinds("bhk")
    /\ LET lo == Get(cleanedRow, "budgetMin")
           hi == Get(cleanedRow, "budgetMax")
       IN (lo.t = "number" /\ hi.t = "number" /\ lo.n > 0 /\ hi.n > 0 /\ Less(hi, lo))
            => "budgetOrder" \in ErrorKinds("budgetMax")
    /\ LET notes == Get(cleanedRow, "notes")
       IN (notes.t = "string" /\ Len(notes.s) > NOTES_MAX)
            => "notesLength" \in ErrorKinds("notes")
    /\ LET name == Get(cleanedRow, "fullName")
       IN (NonEmptyString(name) /\ Len(name.s) \notin NAME_MIN..NAME_MAX)
            => "nameLength" \in ErrorKinds("fullName")

C11_Witness ==
  /\ rpc = "validated"
  /\ MissingRequired = {"city", "source", "timeline"}
  /\ {"phoneDigits", "enum", "bhkRequired", "budgetOrder", "notesLength", "nameLength"}
       \subseteq {enhanced.errors[k].kind : k \in 1..Len(enhanced.errors)}

-----------------------------------------------------------------------------
(* Properties of the import: the bhk rule *)

\* the entries of errors the row loop made for rows it validated
ValidationErrors ==
  {k \in 1..Len(result.errors) :
     /\ result.errors[k].row >= 2
     /\ Kinds(result.errors[k].errors) \cap {"parser", "rowFailed"} = {}}

BhkMessages(e) == {j \in 1..Len(e.errors) : e.errors[j].field = "bhk"}

(* C12: the file of the seven required columns with one otherwise valid
   Apartment row is rejected with exactly one error message, that bhk is
   required for Apartment properties; any Apartment or Villa row without bhk
   gets exactly one error about bhk. *)
C12_OneBhkError ==
  /\ \A k \in ValidationErrors :
       LET e == result.errors[k]
       IN (Get(e.data, "propertyType").s \in {Apartment, Villa}
           /\ Get(e.data, "bhk") \in {Undefined, Str(<<>>)})
            => Cardinality(BhkMessages(e)) = 1
  /\ (pc = "returned" /\ file.present /\ file.lines = <<Header7, LineApartment7>>
      /\ calls.parser = 1) =>
       /\ Len(result.errors) = 1
       /\ result.errors[1].errors = <<Msg("bhkRequired", "bhk", <<Apartment>>)>>

-----------------------------------------------------------------------------
(* Properties of the single-row pipeline: aliases *)

\* the raw value of an enum field is no canonical value and the alias table
\* maps it
IsAlias(f) ==
  LET raw == Get(rawRow, f)
  IN /\ raw.t = "string"
     /\ Trim(raw.s) # <<>>
     /\ Trim(raw.s) \notin ValidValues(f)
     /\ mapEnumValue(f, Trim(raw.s)) # Null

MappedWarnings(f) ==
  {k \in 1..Len(enhanced.warnings) :
     enhanced.warnings[k].kind = "mapped" /\ enhanced.warnings[k].field = f}

ErrorsAbout(f) ==
  {k \in 1..Len(enhanced.errors) : enhanced.errors[k].field = f}
  \cup {Len(enhanced.errors) + k : k \in {j \in 1..Len(zodRes.errors) : zodRes.errors[j].field = f}}

(* C13: a row whose enum field holds an alias (city "chd") ends up with the
   canonical value ("Chandigarh"), gets the warning "<field> '<value>' was
   mapped to '<canonical>'" and no error for that field. *)
C13_AliasMappedWithWarning ==
  rpc = "checked" =>
    \A f \in {"city", "propertyType", "purpose", "timeline", "source", "status"} :
      IsAlias(f) =>
        /\ Get(cleanedRow, f) = mapEnumValue(f, Trim(Get(rawRow, f).s))
        /\ Get(cleanedRow, f).s \in ValidValues(f)
        /\ ErrorsAbout(f) = {}
        /\ MappedWarnings(f) # {}

-----------------------------------------------------------------------------
(* Properties of validateRow: bhk on rows that take none *)

BhkGiven ==
  /\ Get(Cleaned, "propertyType").s \in {Plot, Office, Retail}
  /\ Get(Cleaned, "bhk").t \notin {"null", "undefined"}

(* C14: a Plot, Office or Retail row with a non-null bhk, whatever its value,
   gets a warning and bhk = null, and no error on account of its bhk. *)
C14_BhkNeverRejects ==
  (Validated /\ BhkGiven) =>
    /\ "bhkDropped" \in {enhanced.warnings[k].kind : k \in 1..Len(enhanced.warnings)}
    /\ Get(cleanedRow, "bhk") = Null
    /\ ErrorsAbout("bhk") = {}

-----------------------------------------------------------------------------
(* Properties of the cleaner's functions *)

(* C15: cleanRowData is idempotent: cleanRowData(cleanRowData(r)) completes
   and equals cleanRowData(r), for rows with budgets and tags too. *)
C15_CleanIdempotent ==
  (ufn = "cleanRowData" /\ Len(uout) = 2) =>
    /\ uout[2] # Thrown
    /\ uout[2] = uout[1]

\* the tokens cleanTags is to keep
KeptTokens(tokens) ==
  SelectSeq([i \in 1..Len(tokens) |-> Trim(tokens[i])],
            LAMBDA t : t \notin {<<>>, <<"n","u","l","l">>,
                                 <<"u","n","d","e","f","i","n","e","d">>, <<"[","]">>})

(* C16: for every list of tag tokens, cleanTags of its comma-separated text
   and of its JSON-array text are the same array: the trimmed tokens in their
   order, without the empty, "null", "undefined" and "[]" tokens. *)
C16_TagsSameBothWays ==
  (ufn = "cleanTags" /\ uout # <<>>) =>
    /\ uout[1] = uout[2]
    /\ uout[1] = KeptTokens(uarg)

-----------------------------------------------------------------------------
(* Properties of the phone rule *)

RawPhone == Get(rawRow, "phone")
RawDigits == SelectSeq(RawPhone.s, IsDigit)
CleanedPhone == Get(cleanedRow, "phone")

(* C17: the cleaned phone is the digits of the raw phone, without a leading
   "91" exactly when there are 12 digits that start with "91"; a row with a
   non-empty phone is rejected with a phone error exactly when the cleaned
   phone has fewer than 10 or more than 15 digits. *)
C17_PhoneRule ==
  (rpc \in {"cleaned", "validated", "checked"} /\ RawPhone.t = "string") =>
    /\ CleanedPhone.s =
         (IF Len(RawDigits) = 12 /\ SubSeq(RawDigits, 1, 2) = <<"9","1">>
            THEN SubSeq(RawDigits, 3, 12) ELSE RawDigits)
    /\ (Validated /\ CleanedPhone.s # <<>>) =>
         ("phoneDigits" \in ErrorKinds("phone")
            <=> Len(CleanedPhone.s) \notin PHONE_MIN..PHONE_MAX)
    /\ (rpc = "checked" /\ RawPhone.s # <<>>) =>
         /\ ErrorsAbout("phone") # {} <=> Len(CleanedPhone.s) \notin PHONE_MIN..PHONE_MAX
         /\ Len(CleanedPhone.s) \notin PHONE_MIN..PHONE_MAX => ~RowAccepted

C17_Witness ==
  /\ rpc = "checked"
  /\ RawPhone.s = <<"9","1","9","8","7","6","5","4","3","2","1","0">>
  /\ CleanedPhone.s = <<"9","8","7","6","5","4","3","2","1","0">>
  /\ RowAccepted

-----------------------------------------------------------------------------
(* Properties of the parser, on the text of a file *)

ParsedText == ufn = "parseCSV" /\ uout # <<>>
ParseResult == uout[1]

\* the lines of the text that hold something other than white space
NonBlankLines ==
  SelectSeq(Split(uarg, "\n"), LAMBDA l : \E k \in 1..Len(l) : ~IsSpace(l[k]))
ColumnCount(line) == Len(parseCSVLine(line))
HeaderNames == parseCSVLine(NonBlankLines[1])

\* the four grounds on which a file is turned down as a whole
FailsPreCheck ==
  \/ \A k \in 1..Len(uarg) : IsSpace(uarg[k])
  \/ Len(NonBlankLines) < 2
  \/ "," \notin Range(NonBlankLines[1])
  \/ \E i \in 2..Min(Len(NonBlankLines), 6) :
        ColumnCount(NonBlankLines[i]) # ColumnCount(NonBlankLines[1])

(* C18: a text that is empty or white space only, has fewer than two
   non-blank lines, has no comma in its header line, or has among its first
   five data rows one whose column count differs from the header's, is
   parsed to zero rows and exactly one diagnostic, of row 0. *)
C18_FormatRejection ==
  (ParsedText /\ FailsPreCheck) =>
    /\ ParseResult.data = <<>>
    /\ Len(ParseResult.errors) = 1
    /\ ParseResult.errors[1].row = 0

C18_Witness ==
  /\ ParsedText
  /\ Len(NonBlankLines) = 8
  /\ ColumnCount(NonBlankLines[4]) = 2
  /\ \A i \in (2..8) \ {4} : ColumnCount(NonBlankLines[i]) = 3
  /\ ParseResult.data = <<>>
  /\ Len(ParseResult.errors) = 1

\* what the row of data line j holds under the header at position k
ExpectedValue(j, k) ==
  LET cells == parseCSVLine(NonBlankLines[j + 1])
      n == Len(HeaderNames)
  IN IF Len(cells) = n - 1 /\ k = n THEN Str(New)
     ELSE IF k <= Len(cells) THEN Str(cells[k])
     ELSE Str(<<>>)

\* the diagnostics recorded with a row number
DiagnosticsOf(row) ==
  {d \in 1..Len(ParseResult.errors) : ParseResult.errors[d].row = row}

(* C19: of a text that passes the pre-check every non-blank data line is
   returned as a row with one value per header name: the line's own values,
   "New" under the last header when the line is one column short, nothing
   beyond the header's columns, "" under the headers a shorter line does not
   reach.  A line whose column count differs has exactly one diagnostic with
   its row number, a line whose count matches has none. *)
C19_AutoFixPerRow ==
  (ParsedText /\ ~FailsPreCheck) =>
    /\ Len(ParseResult.data) = Len(NonBlankLines) - 1
    /\ \A d \in 1..Len(ParseResult.errors) :
         ParseResult.errors[d].row \in 2..Len(NonBlankLines)
    /\ \A j \in 1..(Len(NonBlankLines) - 1) :
         /\ DOMAIN ParseResult.data[j] = Range(HeaderNames)
         /\ \A k \in 1..Len(HeaderNames) :
              (\A m \in (k + 1)..Len(HeaderNames) : HeaderNames[m] # HeaderNames[k])
                => ParseResult.data[j][HeaderNames[k]] = ExpectedValue(j, k)
         /\ Cardinality(DiagnosticsOf(j + 1)) =
              (IF ColumnCount(NonBlankLines[j + 1]) # Len(HeaderNames) THEN 1 ELSE 0)

C19_Witness ==
  /\ ParsedText /\ ~FailsPreCheck
  /\ Len(NonBlankLines) = 8
  /\ ColumnCount(NonBlankLines[7]) = 2
  /\ ColumnCount(NonBlankLines[8]) = 4
  /\ ParseResult.data[6] = [h \in {<<"a">>, <<"b">>, <<"c">>} |->
        IF h = <<"a">> THEN Str(<<"1">>) ELSE IF h = <<"b">> THEN Str(<<"2">>) ELSE Str(New)]
  /\ ParseResult.data[7][<<"c">>] = Str(<<"3">>)
  /\ Cardinality(DiagnosticsOf(7)) = 1 /\ Cardinality(DiagnosticsOf(8)) = 1

-----------------------------------------------------------------------------
(* Properties of concurrent updates *)

Applied(p) == req[p].op = "update" /\ upc[p] = "done" /\ resp[p].status = 200
Stale(p) ==
  req[p].op = "update" /\ upc[p] = "done" /\ resp[p].status = 409 /\ resp[p].code = "STALE_DATA"

(* C20: of two updateBuyer calls on the same buyer that carry the same
   updatedAt, the one that was current before either committed, at most one
   is applied, and once both have answered the other has failed with
   STALE_DATA. *)
C20_AtMostOneApplied ==
  \A p, q \in Requests :
    (/\ p # q
     /\ upc[p] = "done" /\ upc[q] = "done"
     /\ req[p].valid /\ req[q].valid
     /\ req[p].id = req[q].id
     /\ req[p].updatedAt = req[q].updatedAt
     /\ Applied(p))
    => ~Applied(q)

-----------------------------------------------------------------------------
(* Properties of ownership and of the history *)

Answered(p) == upc[p] = "done"

(* C21: a user who is not an admin never obtains data of a buyer owned by
   someone else: every buyer whose data is in an answer to such a user is
   owned by that user. *)
C21_OnlyOwnData ==
  \A p \in Requests :
    (Answered(p) /\ req[p].userRole # "admin") =>
      \A b \in resp[p].data \cap DOMAIN buyerTable : buyerTable[b].ownerId = req[p].userId

HistoryOf(b) == {k \in 1..Len(history) : history[k].buyerId = b}

(* C22: every stored buyer has at least one history entry. *)
C22_EveryBuyerHasHistory ==
  \A b \in DOMAIN buyerTable : HistoryOf(b) # {}

-----------------------------------------------------------------------------
(* Properties of validateCSVRow called on its own *)

\* a budget as the claim has it: a non-negative integer, or not given
BudgetGiven(v) == v.t = "number" /\ v.f = 0 /\ v.n >= 0
BudgetOpen(v) == v.t = "undefined" \/ v = Str(<<>>)

\* every field of the row holds a valid value, the tags as JSON-array text
ValidAsTested(row) ==
  /\ Get(row, "fullName").t = "string"
  /\ Len(Get(row, "fullName").s) \in NAME_MIN..NAME_MAX
  /\ Get(row, "email").t = "string"
  /\ (Get(row, "email").s = <<>> \/ zodEmail(Get(row, "email").s))
  /\ Len(SelectSeq(Get(row, "phone").s, IsDigit)) \in PHONE_MIN..PHONE_MAX
  /\ \A f \in {"city", "propertyType", "purpose", "timeline", "source", "status"} :
       Get(row, f).t = "string" /\ Get(row, f).s \in ValidValues(f)
  /\ Len(Get(row, "notes").s) <= NOTES_MAX
  /\ Get(row, "tags").t = "string" /\ IsJSONArray(Get(row, "tags").s)
  /\ \A f \in {"budgetMin", "budgetMax"} : BudgetGiven(Get(row, f)) \/ BudgetOpen(Get(row, f))
  /\ (BudgetGiven(Get(row, "budgetMin")) /\ BudgetGiven(Get(row, "budgetMax")))
       => Get(row, "budgetMax").n >= Get(row, "budgetMin").n
  /\ IF Get(row, "propertyType").s \in {Apartment, Villa}
       THEN Get(row, "bhk").s \in ValidValues("bhk")
       ELSE Get(row, "bhk").s \in ValidValues("bhk") \cup {<<>>}

(* C23: validateCSVRow accepts, with no errors, every row whose fields all
   hold valid values, with the tags given as JSON-array text, the budgets
   non-negative integers in order, and a canonical bhk for an Apartment or
   a Villa. *)
C23_ValidTestRowsAccepted ==
  (ufn = "validateCSVRow" /\ uout # <<>> /\ ValidAsTested(uarg)) =>
    uout[1].isValid /\ uout[1].errors = <<>>

-----------------------------------------------------------------------------
(* Properties of debounce *)

\* call k is the last of its burst: no call follows less than wait after it
LastOfBurst(k) == k = Len(callLog) \/ callLog[k + 1].at - callLog[k].at >= wait
InvocationsOf(k) == {i \in 1..Len(invocations) : invocations[i].id = k}

(* C24 as stated: every call that ends a burst is followed by exactly one
   invocation, wait after it; a call inside a burst by none. *)
C24_OnceAtWaitAfterBurst ==
  \A k \in 1..Len(callLog) :
    /\ ~LastOfBurst(k) => InvocationsOf(k) = {}
    /\ (LastOfBurst(k) /\ (k < Len(callLog) \/ clock > callLog[k].at + wait)) =>
         /\ Cardinality(InvocationsOf(k)) = 1
         /\ \A i \in InvocationsOf(k) :
              /\ invocations[i].at = callLog[k].at + wait
              /\ invocations[i].args = callLog[k].args

\* what holds of the calls and invocations made so far
DebouncedSoFar ==
  /\ \A i \in 1..Len(invocations) :
       LET k == invocations[i].id
       IN /\ k \in 1..Len(callLog)
          /\ LastOfBurst(k)
          /\ invocations[i].args = callLog[k].args
          /\ invocations[i].at >= callLog[k].at + wait
          /\ k < Len(callLog) => invocations[i].at <= callLog[k + 1].at
  /\ \A k \in 1..Len(callLog) : Cardinality(InvocationsOf(k)) <= 1
  /\ Len(callLog) > 0 =>
       (InvocationsOf(Len(callLog)) # {} <=> timers = {})
  /\ Cardinality(timers) <= 1

(* C24, amended: a call inside a burst causes no invocation; the call that
   ends a burst causes at most one, with its arguments, no sooner than wait
   after it and before the next call, and none once a later call was made
   before the timer ran; the last call of all is invoked in the end. *)
C24_Debounced ==
  /\ []DebouncedSoFar
  /\ (timers # {}) ~> (timers = {} /\ InvocationsOf(Len(callLog)) # {})

C24_Witness ==
  /\ Len(callLog) = 3
  /\ callLog[2].at - callLog[1].at < wait
  /\ callLog[3].at - callLog[2].at < wait
  /\ Len(invocations) = 1
  /\ invocations[1].id = 3
  /\ invocations[1].args = callLog[3].args
  /\ invocations[1].at = callLog[3].at + wait

-----------------------------------------------------------------------------
(* Properties of mapEnumValue *)

\* the alias table of a field in the order its keys are written in the source:
\* for bhk 'studio' .. 'four', then '0' .. '4', then '1bhk' .. '4bhk'
AsWritten(field) ==
  IF field = "bhk"
    THEN SubSeq(EnumMappings_bhk, 6, 10) \o SubSeq(EnumMappings_bhk, 1, 5)
           \o SubSeq(EnumMappings_bhk, 11, 14)
    ELSE EnumMapping(field)

\* the keys of a table that the value contains or that contain the value
Matching(table, value) ==
  {i \in 1..Len(table) : Includes(value, table[i][1]) \/ Includes(table[i][1], value)}

(* C25: for a value that, lower-cased and trimmed, is not empty and not a
   key of the field's table, mapEnumValue returns the canonical value of the
   first key, in the order the table is written, that the value contains or
   that contains the value, and null when there is none. *)
C25_FirstWrittenKeyWins ==
  (ufn = "mapEnumValue" /\ uout # <<>>) =>
    LET value == Trim(ToLowerCase(uarg.value))
        table == AsWritten(uarg.field)
        hits == Matching(table, value)
    IN (value # <<>> /\ \A i \in 1..Len(table) : table[i][1] # value) =>
         uout[1] = (IF hits = {} THEN Null
                    ELSE Str(table[CHOOSE i \in hits : \A j \in hits : i <= j][2]))

-----------------------------------------------------------------------------
(* Properties of parseCSVLine *)

\* what a left-to-right reading of a line finds: the commas outside quotes
\* (delimiters), and the text the tokens are made of, where a comma inside
\* quotes stays, a doubled quote inside quotes is one quote, and any other
\* quote is left out
RECURSIVE Reading(_, _)
Reading(line, quoted) ==
  IF line = <<>> THEN [delimiters |-> 0, text |-> <<>>]
  ELSE IF Head(line) = "\"" /\ quoted /\ Len(line) > 1 /\ line[2] = "\""
    THEN LET r == Reading(Tail(Tail(line)), quoted)
         IN [r EXCEPT !.text = <<"\"">> \o @]
  ELSE IF Head(line) = "\"" THEN Reading(Tail(line), ~quoted)
  ELSE IF Head(line) = "," /\ ~quoted
    THEN LET r == Reading(Tail(line), quoted)
         IN [r EXCEPT !.delimiters = @ + 1]
  ELSE LET r == Reading(Tail(line), quoted)
       IN [r EXCEPT !.text = <<Head(line)>> \o @]

NoBlanks(s) == SelectSeq(s, LAMBDA c : ~IsSpace(c))

(* C26: parseCSVLine returns, for every line, 1 + (number of commas outside
   double quotes) tokens, each trimmed; the tokens hold, blanks apart, the
   text of the line in its order, with the commas inside quotes, one quote
   for each doubled quote inside quotes, and no delimiting quote. *)
C26_TokensOfLine ==
  (ufn = "parseCSVLine" /\ uout # <<>>) =>
    LET tokens == uout[1]
    IN /\ Len(tokens) = 1 + Reading(uarg, FALSE).delimiters
       /\ \A i \in 1..Len(tokens) : tokens[i] = Trim(tokens[i])
       /\ NoBlanks(Flatten(tokens)) = NoBlanks(Reading(uarg, FALSE).text)

C26_Witness ==
  /\ ufn = "parseCSVLine"
  /\ uarg = <<"\"", "a", ",", "\"", "\"">>
  /\ uout = <<<< <<"a", ",", "\"">> >>>>

-----------------------------------------------------------------------------
(* Properties of the rows handed to storage *)

\* the text is a JSON array of strings: brackets around nothing or around
\* quoted items separated by commas
IsJSONArrayText(s) ==
  /\ Len(s) >= 2 /\ s[1] = "[" /\ s[Len(s)] = "]"
  /\ LET inner == SubSeq(s, 2, Len(s) - 1)
         quotes == {i \in 1..Len(inner) : inner[i] = "\""}
     IN \/ inner = <<>>
        \/ /\ inner[1] = "\"" /\ inner[Len(inner)] = "\""
           /\ Cardinality(quotes) % 2 = 0
           /\ \A i \in 1..Len(inner) :
                inner[i] = "," /\ Cardinality({q \in quotes : q < i}) % 2 = 0
                  => i > 1 /\ i < Len(inner) /\ inner[i - 1] = "\"" /\ inner[i + 1] = "\""

\* the field schema of a row for storage, for the import of ownerId
SatisfiesFieldSchema(r, ownerId) ==
  /\ \A i \in 1..Len(RequiredFields) :
       Get(r, RequiredFields[i]).t = "string" /\ Trim(Get(r, RequiredFields[i]).s) # <<>>
  /\ \A f \in {"city", "propertyType", "purpose", "timeline", "source"} :
       Get(r, f).s \in ValidValues(f)
  /\ \/ Get(r, "status").t \in {"null", "undefined"}
     \/ Get(r, "status").t = "string" /\ Get(r, "status").s \in ValidValues("status")
  /\ Get(r, "propertyType").s \in {Apartment, Villa} =>
       Get(r, "bhk").t = "string" /\ Get(r, "bhk").s \in ValidValues("bhk")
  /\ Get(r, "propertyType").s \in {Plot, Office, Retail} =>
       Get(r, "bhk").t \in {"null", "undefined"}
  /\ Get(r, "ownerId") = Str(ownerId)
  /\ Get(r, "tags").t = "string" /\ IsJSONArrayText(Get(r, "tags").s)

(* C27: every row that importBuyersFromCSV stages for storage, and so every
   row it passes to createMany and every row stored, satisfies the field
   schema: the seven required fields non-empty, city, propertyType, purpose,
   timeline and source canonical, status canonical or null or absent, bhk
   canonical for Apartment and Villa and null or absent for Plot, Office and
   Retail, ownerId the import's, tags the text of a JSON array. *)
C27_StoredRowsSatisfySchema ==
  /\ \A k \in 1..Len(validRows) : SatisfiesFieldSchema(validRows[k], file.ownerId)
  /\ \A k \in 1..Len(buyers) : SatisfiesFieldSchema(buyers[k], file.ownerId)

\* stored in one import: a Plot row whose line carried a bhk, and a Villa row
\* with its bhk
C27_Witness ==
  /\ pc = "returned" /\ calls.createMany = 1
  /\ \E k \in 1..Len(rowLog) :
       /\ rowLog[k].outcome = "staged"
       /\ Get(parseData[rowLog[k].row - 1], "propertyType") = Str(Plot)
       /\ Get(parseData[rowLog[k].row - 1], "bhk") = Str(Two)
  /\ \E k \in 1..Len(buyers) :
       Get(buyers[k], "propertyType") = Str(Plot) /\ Get(buyers[k], "bhk") = Null
  /\ \E k \in 1..Len(buyers) :
       /\ Get(buyers[k], "propertyType") = Str(Villa) /\ Get(buyers[k], "bhk") = Str(Two)
       /\ Get(buyers[k], "tags") = Str(<<"[", "\"", "a", "\"", ",", "\"", "b", "\"", "]">>)

-----------------------------------------------------------------------------
(* Properties of the counts *)

(* C28: when the import has reached the row loop (file accepted, at least
   one parsed row, required headers present) the counts of the rows done so
   far add up to the number of rows done, and the returned result has
   successfulImports + failedImports = totalRows = the number of (capped)
   rows, also after a storage failure and when a row raised; on every path
   that returns before the loop both counts are 0. *)
C28_CountsAddUp ==
  /\ (InLoopOrAfter /\ pc \in {"rows", "createMany"}) =>
       result.successfulImports + result.failedImports = idx
  /\ pc = "returned" =>
       IF InLoopOrAfter
         THEN /\ result.successfulImports + result.failedImports = result.totalRows
              /\ result.totalRows = Len(parseData)
         ELSE result.successfulImports = 0 /\ result.failedImports = 0

\* returned after a row raised, a row failed validation, rows were staged and
\* createMany failed
C28_Witness ==
  /\ pc = "returned" /\ InLoopOrAfter /\ StorageFailed
  /\ \E k \in 1..Len(rowLog) : rowLog[k].outcome = "threw"
  /\ \E k \in 1..Len(rowLog) : rowLog[k].outcome = "failed"
  /\ Len(validRows) >= 2
  /\ result.successfulImports = 0 /\ result.failedImports = result.totalRows
  /\ result.totalRows >= 4

-----------------------------------------------------------------------------
(* Properties of the call of createMany *)

(* C29: createMany is called at most once per import.  When it is about to
   be called every (capped) row has been through the loop, at least one row
   is staged and the staged rows are as many as successfulImports; once it
   has been called the import only finishes, with the staged rows stored or,
   after a failure, with nothing stored; it is not called on the paths that
   return before the row loop. *)
C29_CreateManyOnce ==
  /\ calls.createMany <= 1
  /\ pc = "createMany" =>
       /\ calls.createMany = 0
       /\ InLoopOrAfter
       /\ idx = Len(parseData) /\ Len(rowLog) = Len(parseData)
       /\ validRows # <<>>
       /\ Len(validRows) = result.successfulImports
  /\ calls.createMany = 1 =>
       /\ pc \in {"finish", "returned"}
       /\ InLoopOrAfter
       /\ idx = Len(parseData) /\ Len(rowLog) = Len(parseData)
       /\ validRows # <<>>
       /\ buyers \in {validRows, <<>>}
  /\ calls.createMany = 0 => buyers = <<>>
  /\ ~InLoopOrAfter => calls.createMany = 0 /\ pc # "createMany"

\* one call, after a loop in which some rows were staged and some were not
C29_Witness ==
  /\ pc = "returned" /\ calls.createMany = 1
  /\ buyers = validRows /\ Len(buyers) >= 2
  /\ Len(buyers) = result.successfulImports
  /\ Len(buyers) < Len(parseData)

-----------------------------------------------------------------------------
(* Properties of the row numbers *)

\* file.lines[1] is the header line and file.lines[k + 1] the k-th data line
RowErrorKinds == {"file", "parser", "noData", "missingHeaders", "database", "importFailed"}

(* C30: the k-th data line of the file is row k + 1 everywhere.  A parser
   diagnostic with row r quotes line r of the file, a line whose column count
   differs from the header's; an error of the row loop with row r carries the
   row object made from line r; a warning of the row loop with row r is a
   warning of validateRow for the row made from line r; the k-th turn of the
   loop has row k + 1.  An error carries row 0 exactly when it is about no
   single row: the file check, the format check, no data rows, the missing
   headers, the storage failure, the import's catch. *)
C30_RowNumbers ==
  /\ \A k \in 1..Len(result.errors) :
       LET e == result.errors[k]
       IN IF e.data = Undefined
            THEN e.row = 0 /\ Kinds(e.errors) \subseteq RowErrorKinds
          ELSE IF "parser" \in Kinds(e.errors)
            THEN /\ e.row \in 2..Len(file.lines)
                 /\ e.data = file.lines[e.row]
                 /\ Len(file.lines[e.row]) # Len(file.lines[1])
          ELSE /\ e.row \in 2..(Len(parseData) + 1)
               /\ e.data = parseData[e.row - 1]
               /\ e.data = rowObject(file.lines[1],
                                     fixColumns(file.lines[e.row], Len(file.lines[1])))
  /\ \A k \in 1..Len(result.warnings) :
       LET w == result.warnings[k]
       IN IF w.msg.kind = "rowLimit" THEN w.row = 0
          ELSE /\ w.row \in 2..(Len(parseData) + 1)
               /\ w.msg \in Range(validateRow(cleanRowData(parseData[w.row - 1])).warnings)
  /\ \A k \in 1..Len(rowLog) : rowLog[k].row = k + 1

\* a returned import where the parser and the row loop both report the same
\* line, under the same number, with a warning for row 2 and an error for
\* row 3 beside them
C30_Witness ==
  /\ pc = "returned" /\ InLoopOrAfter /\ Len(parseData) >= 2
  /\ \E i, j \in 1..Len(result.errors) :
       /\ "parser" \in Kinds(result.errors[i].errors)
       /\ "parser" \notin Kinds(result.errors[j].errors)
       /\ result.errors[i].row >= 2
       /\ result.errors[i].row = result.errors[j].row
       /\ result.errors[i].row = Len(file.lines)
       /\ result.errors[j].data =
            rowObject(file.lines[1], fixColumns(result.errors[i].data, Len(file.lines[1])))
  /\ \E k \in 1..Len(result.warnings) : result.warnings[k].row = 2
  /\ \E k \in 1..Len(result.errors) :
       result.errors[k].row = 3 /\ result.errors[k].data = parseData[2]
====
